---- MODULE Spec2Model ----
(***************************************************************************)
(* Radka Scanner+ (Matt9117/Intolerancies): the rule-based verdict engine  *)
(* evaluateForProfile and the lookup pipeline fetchProduct of src/App.tsx, *)
(* with the advisory call to /api/eval.                                    *)
(*                                                                         *)
(* Text.  A JavaScript string is modelled as the sequence of its           *)
(* characters; a character is a one-letter string.  A letter that carries  *)
(* a diacritic is written as its base letter followed by the mark:         *)
(*   ^ caron, ' acute, ~ circumflex, : diaeresis                           *)
(* so <<"p","s^","e","n","i","c","a">> is the term "psenica" written with  *)
(* s-caron.  The empty sequence is the empty string; an absent (undefined) *)
(* field is modelled as the empty value too, since the code reads every    *)
(* field through `|| ""` or `|| []`.                                       *)
(***************************************************************************)
EXTENDS Integers, Sequences, FiniteSets, TLC

VARIABLES
  evalP,          \* evaluateForProfile: the argument p
  evalProf,       \* evaluateForProfile: the argument prof (Null or a Profile)
  evalOut,        \* evaluateForProfile: the value returned, Null before the call
  profile,        \* useState<Profile | null>(loadProfile())
  barcode,        \* useState("")
  loading,        \* useState(false)
  error,          \* useState<string | null>(null)
  product,        \* useState<any>(null)
  status,         \* useState<EvalStatus | null>(null)
  notes,          \* useState<string[]>([])
  history,        \* useState<any[]>: the entries { code, brand, name, status, ts }
  storedHistory,  \* localStorage "radka_scan_history"
  scanning,       \* useState(false)
  now,            \* the last value Date.now() returned
  lookups,        \* the calls of fetchProduct, each with its place and local variables
  req,            \* /api/eval: the request (method, Origin header, body)
  osEnv,          \* /api/eval: process.env.OPENAI_API_KEY and the answer of the service
  deployed,       \* /api/eval: the file whose handler serves the request
  ran,            \* /api/eval: what the handler did, Null before it ran
  chain,          \* fetchOFFChain: the endpoints' answers and what the call returned
  scan,           \* src/App.tsx: deviceId, devices, gotOneRef, readerRef and the decoder
  cam,            \* src/src/App.tsx: cameraOn, streamRef, controlsRef, the calls of startCamera
  storedProfile,  \* localStorage "radka_profile"
  tagProfile      \* src/src/App.tsx: useState<Profile> and localStorage "radka.profile"

\* A value that may be null (Profile | null, EvalStatus | null, ...) is a sequence of
\* at most one element: Null is null, Some(v) is the value v.
Null == <<>>
Some(v) == << v >>

-----------------------------------------------------------------------------
(* String primitives *)

\* The upper-case / lower-case letter pairs of the alphabet the texts use.
CasePairs ==
  { <<"A","a">>, <<"B","b">>, <<"C","c">>, <<"D","d">>, <<"E","e">>, <<"F","f">>, <<"G","g">>,
    <<"H","h">>, <<"I","i">>, <<"J","j">>, <<"K","k">>, <<"L","l">>, <<"M","m">>, <<"N","n">>,
    <<"O","o">>, <<"P","p">>, <<"Q","q">>, <<"R","r">>, <<"S","s">>, <<"T","t">>, <<"U","u">>,
    <<"V","v">>, <<"W","w">>, <<"X","x">>, <<"Y","y">>, <<"Z","z">>,
    <<"A'","a'">>, <<"A:","a:">>, <<"E'","e'">>, <<"I'","i'">>, <<"O'","o'">>, <<"O~","o~">>,
    <<"U'","u'">>, <<"Y'","y'">>, <<"C^","c^">>, <<"E^","e^">>, <<"N^","n^">>, <<"R^","r^">>,
    <<"S^","s^">>, <<"Z^","z^">> }

\* String.prototype.toLowerCase, one character
toLowerCaseChar(c) ==
  IF \E pr \in CasePairs : pr[1] = c THEN (CHOOSE pr \in CasePairs : pr[1] = c)[2] ELSE c

\* String.prototype.toUpperCase, one character
toUpperCaseChar(c) ==
  IF \E pr \in CasePairs : pr[2] = c THEN (CHOOSE pr \in CasePairs : pr[2] = c)[1] ELSE c

\* String.prototype.toLowerCase
toLowerCase(s) == [i \in 1..Len(s) |-> toLowerCaseChar(s[i])]

\* String.prototype.toUpperCase
toUpperCase(s) == [i \in 1..Len(s) |-> toUpperCaseChar(s[i])]

\* String.prototype.includes: t occurs in s as a contiguous substring
includes(s, t) ==
  \E i \in 1..(Len(s) - Len(t) + 1) : \A j \in 1..Len(t) : s[i + j - 1] = t[j]

\* Array.prototype.join
RECURSIVE join(_, _)
join(arr, sep) ==
  IF Len(arr) = 0 THEN <<>>
  ELSE IF Len(arr) = 1 THEN arr[1]
  ELSE arr[1] \o sep \o join(Tail(arr), sep)

\* a || b on strings and arrays-or-undefined: the empty value is falsy
OrElse(a, b) == IF a # <<>> THEN a ELSE b

-----------------------------------------------------------------------------
(* The category table *)

\* The keys of INTOLERANCES in declaration order (type IntoleranceKey)
IntoleranceKey ==
  << "gluten", "milk_protein", "lactose", "nuts", "peanut", "soy", "egg",
     "sesame", "fish", "shellfish", "celery", "mustard", "sulphites", "lupin" >>

\* A key as the text `${key}` interpolates into the tag pattern
keyText ==
     "gluten" :> <<"g","l","u","t","e","n">>
  @@ "milk_protein" :> <<"m","i","l","k","_","p","r","o","t","e","i","n">>
  @@ "lactose" :> <<"l","a","c","t","o","s","e">>
  @@ "nuts" :> <<"n","u","t","s">>
  @@ "peanut" :> <<"p","e","a","n","u","t">>
  @@ "soy" :> <<"s","o","y">>
  @@ "egg" :> <<"e","g","g">>
  @@ "sesame" :> <<"s","e","s","a","m","e">>
  @@ "fish" :> <<"f","i","s","h">>
  @@ "shellfish" :> <<"s","h","e","l","l","f","i","s","h">>
  @@ "celery" :> <<"c","e","l","e","r","y">>
  @@ "mustard" :> <<"m","u","s","t","a","r","d">>
  @@ "sulphites" :> <<"s","u","l","p","h","i","t","e","s">>
  @@ "lupin" :> <<"l","u","p","i","n">>

INTOLERANCES ==
     "gluten" :> [   \* line 12
       sk |-> <<"L","e","p","o","k">>,
       cs |-> <<"L","e","p","e","k">>,
       terms |-> <<
         <<"l","e","p","o","k">>, <<"p","s^","e","n","i","c","a">>, <<"p","s","e","n","i","c","a">>,
         <<"w","h","e","a","t">>, <<"j","a","c^","m","e","n^">>, <<"j","a","c","m","e","n">>,
         <<"b","a","r","l","e","y">>, <<"r","a","z^">>, <<"r","a","z">>, <<"r","y","e">>,
         <<"s^","p","a","l","d","a">>, <<"s","p","e","l","t","a">>, <<"s","p","e","l","t">>, <<"o","v","o","s">>,
         <<"g","l","u","t","e","n">> >> ]
  @@ "milk_protein" :> [   \* line 13
       sk |-> <<"M","l","i","e","c^","n","a"," ","b","i","e","l","k","o","v","i","n","a"," ","(","A","P","L","V",")">>,
       cs |-> <<"M","l","e'","c^","n","a'"," ","b","i'","l","k","o","v","i","n","a">>,
       terms |-> <<
         <<"m","l","i","e","k","o">>, <<"m","l","i","e","c","n","a"," ","b","i","e","l","k","o","v","i","n","a">>,
         <<"m","l","i","e","c^","n","a"," ","b","i","e","l","k","o","v","i","n","a">>,
         <<"s","r","v","a'","t","k","a">>, <<"w","h","e","y">>, <<"c","a","s","e","i","n">>,
         <<"k","a","z","e","i","n">>, <<"k","a","z","e","i'","n">>, <<"m","a","s","l","o">>,
         <<"s","m","o","t","a","n","a">>, <<"s","y","r">>, <<"t","v","a","r","o","h">>,
         <<"m","l","i","e","c^","n","y">>, <<"m","l","e'","k","o">>, <<"s","y","r","o","v","a'","t","k","a">>,
         <<"k","a","s","e","i","n">> >> ]
  @@ "lactose" :> [   \* line 14
       sk |-> <<"L","a","k","t","o'","z","a">>,
       cs |-> <<"L","a","k","t","o'","z","a">>,
       terms |-> <<
         <<"l","a","k","t","o'","z","a">>, <<"l","a","k","t","o","s","a">>, <<"l","a","c","t","o","s","e">> >> ]
  @@ "nuts" :> [   \* line 15
       sk |-> <<"O","r","e","c","h","y"," ","s","t","r","o","m","o","v","e'">>,
       cs |-> <<"S","t","r","o","m","o","v","e'"," ","o","r^","e","c","h","y">>,
       terms |-> <<
         <<"l","i","e","s","k","o","v","e'">>, <<"m","a","n","d","l","e">>, <<"v","l","a","s^","s","k","e'">>,
         <<"k","e","s^","u">>, <<"p","e","k","a","n","y">>, <<"p","i","n","i","o","v","e'">>,
         <<"p","i","s","t","a'","c","i","e">>, <<"b","r","a","z","i","l","s","k","e'">>,
         <<"h","a","z","e","l","n","u","t">>, <<"a","l","m","o","n","d">>, <<"w","a","l","n","u","t">>,
         <<"c","a","s","h","e","w">>, <<"p","e","c","a","n">>, <<"p","i","s","t","a","c","h","i","o">> >> ]
  @@ "peanut" :> [   \* line 16
       sk |-> <<"A","r","a","s^","i","d","y">>,
       cs |-> <<"A","r","a","s^","i","d","y">>,
       terms |-> <<
         <<"a","r","a","s^","i","d","y">>, <<"a","r","a","s^","i'","d","y">>, <<"a","r","a","s^","i'","d">>,
         <<"p","e","a","n","u","t">>, <<"a","r","a","c","h","i","s"," ","h","y","p","o","g","a","e","a">> >> ]
  @@ "soy" :> [   \* line 17
       sk |-> <<"S","o'","j","a">>,
       cs |-> <<"S","o'","j","a">>,
       terms |-> <<
         <<"s","o'","j","a">>, <<"s","o","j","a">>, <<"s","o","y">>, <<"s","o","j","o","v","y'">>,
         <<"s","o'","j","o","v","y'">>, <<"l","e","c","i","t","i'","n"," ","(","s","o","j","o","v","y'",")">>,
         <<"s","o","j","o","v","y'"," ","l","e","c","i","t","i'","n">>, <<"s","o","y","a">> >> ]
  @@ "egg" :> [   \* line 18
       sk |-> <<"V","a","j","c","e">>,
       cs |-> <<"V","e","j","c","e">>,
       terms |-> <<
         <<"v","a","j","c","e">>, <<"v","a","j","c","i","a">>, <<"v","a","j","e","c^","n","y'">>,
         <<"v","a","j","e","c^","n","e'">>, <<"a","l","b","u","m","i'","n">>, <<"e","g","g">>,
         <<"o","v","a","l","b","u","m","i","n">> >> ]
  @@ "sesame" :> [   \* line 19
       sk |-> <<"S","e","z","a","m">>,
       cs |-> <<"S","e","z","a","m">>,
       terms |-> <<
         <<"s","e","z","a","m">>, <<"s","e","s","a","m","e">>, <<"s","e","z","a","m","o","v","e'">> >> ]
  @@ "fish" :> [   \* line 20
       sk |-> <<"R","y","b","y">>,
       cs |-> <<"R","y","b","y">>,
       terms |-> <<
         <<"r","y","b","a">>, <<"r","y","b","y">>, <<"f","i","s","h">>, <<"l","o","s","o","s">>,
         <<"t","u","n","i","a","k">>, <<"t","u","n","a">>, <<"k","a","p","o","r">>, <<"t","r","e","s","k","a">>,
         <<"c","o","d">>, <<"l","o","s","o","s","o","v","y'">> >> ]
  @@ "shellfish" :> [   \* line 21
       sk |-> <<"K","o~","r","o","v","c","e","/","m","a:","k","k","y'","s^","e">>,
       cs |-> <<"K","o","r","y'","s^","i","/","M","e^","k","k","y'","s^","i">>,
       terms |-> <<
         <<"k","r","e","v","e","t","a">>, <<"k","r","a","b">>, <<"h","o","m","a'","r">>, <<"m","u","s^","l","a">>,
         <<"s","l","a'","v","k","a">>, <<"l","a","s","t","u'","r","a">>, <<"k","r","e","v","e","t">>,
         <<"k","r","a","b","i'">>, <<"m","o","r","s","k","y'"," ","p","l","o","d">>, <<"s","h","r","i","m","p">>,
         <<"c","r","a","b">>, <<"l","o","b","s","t","e","r">>, <<"m","u","s","s","e","l">>,
         <<"s","h","e","l","l","f","i","s","h">> >> ]
  @@ "celery" :> [   \* line 22
       sk |-> <<"Z","e","l","e","r">>,
       cs |-> <<"C","e","l","e","r">>,
       terms |-> <<
         <<"z","e","l","e","r">>, <<"c","e","l","e","r">>, <<"c","e","l","e","r","y">> >> ]
  @@ "mustard" :> [   \* line 23
       sk |-> <<"H","o","r","c^","i","c","a">>,
       cs |-> <<"H","o","r^","c^","i","c","e">>,
       terms |-> <<
         <<"h","o","r","c^","i","c","a">>, <<"h","o","r","c^","i","c^","n","e'"," ","s","e","m","e","n","o">>,
         <<"h","o","r","c^","i","c^","n","y'">>, <<"m","u","s","t","a","r","d">>, <<"h","o","r^","c^","i","c","e">> >> ]
  @@ "sulphites" :> [   \* line 24
       sk |-> <<"O","x","i","d","y"," ","s","i","r","i","c^","i","t","e'","/","s","i","r","i","c^","i","t","a","n","y">>,
       cs |-> <<"O","x","i","d","y"," ","s","i","r^","i","c^","i","t","e'","/","s","i","r^","i","c^","i","t","a","n","y">>,
       terms |-> <<
         <<"o","x","i","d"," ","s","i","r","i","c^","i","t","y'">>, <<"s","i","r","i","c^","i","t","a","n","y">>,
         <<"s","i","r","i","c^","i","t","a","n">>, <<"o","x","i","d"," ","s","i","r^","i","c^","i","t","y'">>,
         <<"s","i","r^","i","c^","i","t","a","n","y">>, <<"s","u","l","p","h","i","t","e","s">>,
         <<"s","u","l","f","i","t","e","s">>, <<"E","2","2","0">>, <<"E","2","2","1">>, <<"E","2","2","2">>,
         <<"E","2","2","3">>, <<"E","2","2","4">>, <<"E","2","2","6">>, <<"E","2","2","7">>, <<"E","2","2","8">> >> ]
  @@ "lupin" :> [   \* line 25
       sk |-> <<"V","l","c^","i'"," ","b","o~","b"," ","(","l","u","p","i","n","a",")">>,
       cs |-> <<"V","l","c^","i'"," ","b","o","b"," ","(","l","u","p","i","n","a",")">>,
       terms |-> <<
         <<"v","l","c^","i'"," ","b","o~","b">>, <<"l","u","p","i","n","a">>, <<"l","u","p","i","n">>,
         <<"l","u","p","i","n","e">> >> ]
-----------------------------------------------------------------------------
(* evaluateForProfile *)

\* A product record of the product database, with the fields the code reads.
Product(name, ing_sk, ing_cs, ing_en, ing, tags, labels, traces, traces_tags) ==
  [ product_name |-> name, ingredients_text_sk |-> ing_sk, ingredients_text_cs |-> ing_cs,
    ingredients_text_en |-> ing_en, ingredients_text |-> ing, allergens_tags |-> tags,
    labels |-> labels, traces |-> traces, traces_tags |-> traces_tags ]

\* const textRaw = p.ingredients_text_sk || ..._cs || ..._en || p.ingredients_text || ""
textRaw(p) ==
  OrElse(p.ingredients_text_sk,
    OrElse(p.ingredients_text_cs, OrElse(p.ingredients_text_en, p.ingredients_text)))

\* activeOf without the fallback: the list as stored, the empty list for no profile
activeOfAsStored(prof) == IF prof # Null THEN prof[1].intolerances ELSE <<>>

\* const active = prof?.intolerances?.length ? prof.intolerances : ["gluten", "milk_protein"]
activeOf(prof) ==
  IF prof # Null /\ Len(prof[1].intolerances) > 0
    THEN prof[1].intolerances
    ELSE << "gluten", "milk_protein" >>

\* active.includes(key)
activeIncludes(active, key) == \E i \in 1..Len(active) : active[i] = key

\* What a label or key matches once it is interpolated, unescaped, into a RegExp
\* source: "(" and ")" delimit a group and match no character of the tag.  (The
\* table holds no other metacharacter: no . * + ? [ ] { } | ^ $ or backslash.)
patternText(s) == SelectSeq(s, LAMBDA c : c \notin {"(", ")"})

\* s ends with w, compared under the regular expression's "i" flag, and w is at
\* the start of s or follows a ":"  --  (^|:)w$
endsAnchored(s, w) ==
  /\ Len(s) >= Len(w)
  /\ toLowerCase(SubSeq(s, Len(s) - Len(w) + 1, Len(s))) = toLowerCase(w)
  /\ \/ Len(s) = Len(w)
     \/ s[Len(s) - Len(w)] = ":"

\* new RegExp(`(^|:)(${spec.sk}|${spec.cs}|${key})$`, "i").test(t)
tagTest(key, t) ==
  \E w \in { patternText(INTOLERANCES[key].sk), patternText(INTOLERANCES[key].cs),
             patternText(keyText[key]) } : endsAnchored(t, w)

\* const hitTag = tags.some(t => new RegExp(...).test(t))
hitTag(p, key) == \E i \in 1..Len(p.allergens_tags) : tagTest(key, p.allergens_tags[i])

\* const hitTxt = spec.terms.some(t => txt.includes(t)), txt = textRaw.toLowerCase()
hitTxt(p, key) ==
  LET txt == toLowerCase(textRaw(p))
      terms == INTOLERANCES[key].terms
  IN  \E i \in 1..Len(terms) : includes(txt, terms[i])

\* The notes: the text of the template that produces each, with the text it interpolates
noteContains(key) == << "Obsahuje / moze obsahovat: ", INTOLERANCES[key].sk >>
noteDeclaredGF == << "Deklarovane ako bezlepkove.", <<>> >>
noteCheckLabel == << "Nenasli sa jasne rizikove alergeny podla profilu. Skontroluj etiketu.", <<>> >>
noteTraces(key) == << "Upozornenie: stopy ", INTOLERANCES[key].sk >>

\* for (const key of active) { ... if (hitTag || hitTxt) { st = "avoid"; notes.push(...) } }
RECURSIVE hardLoop(_, _, _, _)
hardLoop(p, active, i, acc) ==
  IF i > Len(active) THEN acc
  ELSE hardLoop(p, active, i + 1,
         IF hitTag(p, active[i]) \/ hitTxt(p, active[i])
           THEN [status |-> "avoid", notes |-> Append(acc.notes, noteContains(active[i]))]
           ELSE acc)

\* const claims = `${p.labels || ""} ${p.traces || ""} ${(p.traces_tags || []).join(" ")}`.toLowerCase()
claimsOf(p) == toLowerCase(p.labels \o <<" ">> \o p.traces \o <<" ">> \o join(p.traces_tags, <<" ">>))

\* The strings /gluten[- ]?free|bez lepku|bezlepkov/ matches as a substring
glutenFreePatterns ==
  { <<"g","l","u","t","e","n","-","f","r","e","e">>, <<"g","l","u","t","e","n"," ","f","r","e","e">>,
    <<"g","l","u","t","e","n","f","r","e","e">>, <<"b","e","z"," ","l","e","p","k","u">>,
    <<"b","e","z","l","e","p","k","o","v">> }

\* saysGF with the pattern /gluten-free|bez lepku|bezlepkov/: the separator is required
saysGFHyphenOnly(p) ==
  LET claims == toLowerCase(claimsOf(p))
  IN  \E pat \in glutenFreePatterns \ { <<"g","l","u","t","e","n"," ","f","r","e","e">>,
                                         <<"g","l","u","t","e","n","f","r","e","e">> } :
        includes(claims, pat)

\* const saysGF = /gluten[- ]?free|bez lepku|bezlepkov/i.test(claims)
saysGF(p) ==
  LET claims == toLowerCase(claimsOf(p))
  IN  \E pat \in glutenFreePatterns : includes(claims, pat)

\* glutenFreeStep without the test st !== "avoid"
glutenFreeStepOverAvoid(p, active, acc) ==
  IF activeIncludes(active, "gluten") /\ saysGF(p)
    THEN [status |-> "safe", notes |-> Append(acc.notes, noteDeclaredGF)]
    ELSE acc

\* if (active.includes("gluten") && saysGF && st !== "avoid") { st = "safe"; notes.push(...) }
glutenFreeStep(p, active, acc) ==
  IF activeIncludes(active, "gluten") /\ saysGF(p) /\ acc.status # "avoid"
    THEN [status |-> "safe", notes |-> Append(acc.notes, noteDeclaredGF)]
    ELSE acc

\* maybeStep that pushes no note
maybeStepSilent(acc) == acc

\* if (st === "maybe") notes.push("Nenasli sa ... Skontroluj etiketu.")
maybeStep(acc) ==
  IF acc.status = "maybe" THEN [acc EXCEPT !.notes = Append(acc.notes, noteCheckLabel)] ELSE acc

\* const traces = (p.traces || (p.traces_tags || []).join(", ") || "").toLowerCase()
tracesOf(p) == toLowerCase(OrElse(p.traces, join(p.traces_tags, <<",", " ">>)))

\* spec.terms.some(t => traces.includes(t))
traceHit(p, key) ==
  LET traces == tracesOf(p)
      terms == INTOLERANCES[key].terms
  IN  \E i \in 1..Len(terms) : includes(traces, terms[i])

\* tracesLoop that pushes the notes and leaves the status as it is
RECURSIVE tracesLoopNotesOnly(_, _, _, _)
tracesLoopNotesOnly(p, active, i, acc) ==
  IF i > Len(active) THEN acc
  ELSE tracesLoopNotesOnly(p, active, i + 1,
         IF traceHit(p, active[i])
           THEN [acc EXCEPT !.notes = Append(acc.notes, noteTraces(active[i]))]
           ELSE acc)

\* for (const key of active) { if (...) { notes.push(...); if (st === "safe") st = "maybe" } }
RECURSIVE tracesLoop(_, _, _, _)
tracesLoop(p, active, i, acc) ==
  IF i > Len(active) THEN acc
  ELSE tracesLoop(p, active, i + 1,
         IF traceHit(p, active[i])
           THEN [status |-> IF acc.status = "safe" THEN "maybe" ELSE acc.status,
                 notes |-> Append(acc.notes, noteTraces(active[i]))]
           ELSE acc)

\* function evaluateForProfile(p, prof): { status, notes }
evaluateForProfile(p, prof) ==
  LET active == activeOf(prof)
      hard == hardLoop(p, active, 1, [status |-> "maybe", notes |-> <<>>])
      claimed == glutenFreeStep(p, active, hard)
      noted == maybeStep(claimed)
  IN  tracesLoop(p, active, 1, noted)

-----------------------------------------------------------------------------
(* Inputs of evaluateForProfile: products and profiles *)

\* The longest intolerances list of a profile given to evaluateForProfile
MaxProfileLen == 2

Keys == { IntoleranceKey[i] : i \in 1..Len(IntoleranceKey) }

TermsOf(key) == { INTOLERANCES[key].terms[i] : i \in 1..Len(INTOLERANCES[key].terms) }

\* A keyword as the table writes it, in capitals and in small letters
TermProbes(key) == UNION { { t, toUpperCase(t), toLowerCase(t) } : t \in TermsOf(key) }

\* A text with w inside it: "voda, <w>, sol"
Embed(w) == <<"v","o","d","a",",", " ">> \o w \o <<",", " ", "s","o","l">>

Water == <<"v","o","d","a">>
WheatFlour == <<"W","h","e","a","t"," ","f","l","o","u","r">>

\* Allergen tags built from a category's names: the name alone, in capitals, after a
\* language prefix, inside a longer tag, and before a suffix
TagProbes(key) ==
  UNION { { n, toUpperCase(n), <<"e","n",":">> \o toLowerCase(n),
            <<"e","n",":","c","o","n","t","a","i","n","s","-">> \o n,
            <<"e","n",":">> \o n \o <<"-","f","r","e","e">> }
          : n \in { INTOLERANCES[key].sk, INTOLERANCES[key].cs, keyText[key] } }

\* Label wordings: every gluten-free wording, in small letters and in capitals
LabelProbes == UNION { { g, toUpperCase(g) } : g \in glutenFreePatterns }

GlutenFreeLabel == <<"e","n",":","g","l","u","t","e","n","-","f","r","e","e">>
BezLepku == <<"B","e","z"," ","l","e","p","k","u">>

\* Products whose ingredient text holds a keyword of `key`
IngredientProducts(key) ==
  { Product("", IF f = "sk" THEN Embed(w) ELSE <<>>, IF f = "cs" THEN Embed(w) ELSE <<>>,
            <<>>, IF f = "generic" THEN Embed(w) ELSE <<>>, <<>>, l, <<>>, <<>>)
    : w \in TermProbes(key), f \in {"sk", "cs", "generic"}, l \in {<<>>, GlutenFreeLabel} }

\* Products whose traces field (traces, or traces_tags) holds a keyword of `key`
TraceProducts(key) ==
  { Product("", <<>>, <<>>, <<>>, <<>>, <<>>, l,
            IF f = "traces" THEN Embed(w) ELSE <<>>,
            IF f = "traces_tags" THEN << <<"e","n",":">> \o w >> ELSE <<>>)
    : w \in TermProbes(key), f \in {"traces", "traces_tags"}, l \in {<<>>, GlutenFreeLabel} }

\* Products with one allergen tag naming `key`
TagProducts(key) ==
  { Product("", i, <<>>, <<>>, <<>>, << t >>, l, <<>>, <<>>)
    : t \in TagProbes(key), i \in {<<>>, Water}, l \in {<<>>, BezLepku} }

\* Products with a gluten-free wording in labels, traces or traces_tags
LabelProducts ==
  { Product("", <<>>, <<>>, i, <<>>, <<>>,
            IF f = "labels" THEN g ELSE <<>>,
            IF f = "traces" THEN g ELSE <<>>,
            IF f = "traces_tags" THEN << g >> ELSE <<>>)
    : g \in LabelProbes, f \in {"labels", "traces", "traces_tags"}, i \in {<<>>, Water, WheatFlour} }

\* The product with every field empty or absent
EmptyProduct == Product("", <<>>, <<>>, <<>>, <<>>, <<>>, <<>>, <<>>, <<>>)

\* Sequences without repetition over S, of length at most n
RECURSIVE DistinctSeqs(_, _)
DistinctSeqs(S, n) ==
  IF n = 0 THEN { <<>> }
  ELSE LET shorter == DistinctSeqs(S, n - 1)
       IN  shorter \cup
           UNION { { Append(s, k) : k \in S \ { s[i] : i \in 1..Len(s) } } : s \in shorter }

\* type Profile = { name, intolerances }
Profile(name, intolerances) == [ name |-> name, intolerances |-> intolerances ]

\* The profiles a product probing `key` is evaluated for
ProfilesFor(key) ==
  { Null } \cup { Some(Profile("Ja", s)) : s \in DistinctSeqs({key, "gluten", "milk_protein"}, MaxProfileLen) }

EvalInputs ==
  UNION { (IngredientProducts(key) \cup TraceProducts(key) \cup TagProducts(key)
             \cup LabelProducts \cup {EmptyProduct}) \X ProfilesFor(key) : key \in Keys }

-----------------------------------------------------------------------------
(* The client: fetchProduct, fetchOFFChain, evaluateWithAI  (src/App.tsx) *)

\* The number of fetchProduct calls of one run of the model
MaxLookups == 2

\* The last reading of the clock Date.now() of one run of the model
MaxClock == 1

\* localStorage keeps history.slice(0, 100)
HistoryCap == 100

\* The product codes that are typed, scanned and looked up
Codes == { "c1", "c2" }

Wheat == <<"w","h","e","a","t">>
Rice == <<"r","i","c","e">>
EnGluten == <<"e","n",":","g","l","u","t","e","n">>

\* A record of the product database: the fields evaluateForProfile reads, with the
\* code, the brand and the generic name
OffProduct(code, brands, p) == [ code |-> code, brands |-> brands, generic_name |-> "" ] @@ p

\* The records the product database may hold.  The regional endpoints are separate
\* databases, so one code may have different records.
Catalogue ==
  { OffProduct("c1", "Pekar", Product("Chlieb", <<>>, <<>>, <<>>, WheatFlour, <<>>, <<>>, <<>>, <<>>)),
    OffProduct("c1", "", Product("Ryzovy chlebik", <<>>, <<>>, Rice, <<>>, <<>>, GlutenFreeLabel, <<>>, <<>>)),
    OffProduct("c2", "", Product("Voda", Water, <<>>, <<>>, <<>>, <<>>, <<>>, <<>>, <<>>)),
    OffProduct("c2", "Mlyn", Product("", <<>>, <<>>, <<>>, <<>>, << EnGluten >>, <<>>, <<>>, <<>>)),
    OffProduct("c2", "", Product("", <<>>, <<>>, <<>>, <<>>, <<>>, <<>>, Wheat, <<>>)) }

\* What one endpoint of the product database may answer: a network error, a
\* response that is not ok, a body that is no JSON, a body with status 0, a body
\* with status 1 and no product, or a body with status 1 and a product
OffReplies(code) ==
  { [ kind |-> k, product |-> Null ] : k \in { "error", "notok", "badjson", "status0", "noproduct" } }
    \cup { [ kind |-> "match", product |-> Some(q) ] : q \in { q \in Catalogue : q.code = code } }

\* The test of fetchOFFChain without `j.status === 1 && j.product`: every body that
\* is JSON matches
offMatchesAnyBody(reply) == reply.kind \in { "match", "status0", "noproduct" }

\* if (r.ok) { const j = await r.json(); if (j.status === 1 && j.product) return j; }
offMatches(reply) == reply.kind = "match"

\* The number of endpoints of fetchOFFChain: sk, cz, world
NumEndpoints == 3

\* The statuses of type EvalStatus
EvalStatus == { "safe", "avoid", "maybe" }

\* What /api/eval may answer.  net: whether fetch resolved; resOk, httpStatus, text:
\* the response; data: the body parsed as JSON (Null: the body is no JSON), with
\* its fields ok, status and notes, each possibly absent.
AiData(ok, st, nts) == [ ok |-> ok, status |-> st, notes |-> nts ]
AiResponse(resOk, httpStatus, text, data) ==
  [ resOk |-> resOk, httpStatus |-> httpStatus, text |-> text, data |-> data ]

AiNote == << "AI: pozri etiketu.", <<>> >>

AiResponses ==
  { AiResponse(FALSE, "500", "", Null), AiResponse(FALSE, "400", "Missing code", Null),
    AiResponse(TRUE, "200", "", Null),
    AiResponse(TRUE, "200", "", Some(AiData(FALSE, Null, Null))),
    AiResponse(TRUE, "200", "", Some(AiData(TRUE, Some("safe"), Some(<< AiNote >>)))),
    AiResponse(TRUE, "200", "", Some(AiData(TRUE, Some("avoid"), Null))),
    AiResponse(TRUE, "200", "", Some(AiData(TRUE, Some("maybe"), Some(<<>>)))),
    AiResponse(TRUE, "200", "", Some(AiData(TRUE, Some("unknown"), Some(<< AiNote >>)))),
    AiResponse(TRUE, "200", "", Some(AiData(TRUE, Null, Some(<< AiNote >>)))) }

\* The value evaluateWithAI returns: { status?, notes? }
AiResult(st, nts) == [ status |-> st, notes |-> nts ]

\* evaluateWithAI, the catch branch: fetch rejected (network error, abort)
evaluateWithAICatch ==
  AiResult(Null, Some(<< << "AI nie je dostupna (siet/kvota). Rozhodnutie je len podla OFF.", <<>> >> >>))

\* evaluateWithAI, after fetch resolved with the response r
evaluateWithAI(r) ==
  IF ~r.resOk
    THEN AiResult(Null, Some(<< << "AI doplnenie nie je dostupne", << r.httpStatus >> >> >>
                              \o (IF r.text # "" THEN << << r.text, <<>> >> >> ELSE <<>>)))
  ELSE LET data == IF r.data = Null THEN AiData(FALSE, Null, Null) ELSE r.data[1]
       IN  IF ~data.ok
             THEN AiResult(Null, Some(<< << "AI odpoved nebola v poriadku. Pouzite boli len data z OFF.", <<>> >> >>))
             ELSE AiResult(data.status, data.notes)

\* !(p.ingredients_text || p.ingredients_text_sk || p.ingredients_text_cs || p.ingredients_text_en)
noIngredients(p) ==
  OrElse(p.ingredients_text,
    OrElse(p.ingredients_text_sk, OrElse(p.ingredients_text_cs, p.ingredients_text_en))) = <<>>

\* base.status === "maybe" || !(p.ingredients_text || ...)
needsAI(base, p) == base.status = "maybe" \/ noIngredients(p)

\* p.product_name || p.generic_name || "Neznamy produkt"
displayName(p) ==
  IF p.product_name # "" THEN p.product_name
  ELSE IF p.generic_name # "" THEN p.generic_name ELSE "Neznamy produkt"

\* { code, brand, name, status: base.status, ts: Date.now() }
historyEntry(code, p, base, ts) ==
  [ code |-> code, brand |-> p.brands, name |-> displayName(p), status |-> base.status, ts |-> ts ]

\* historyInsert without the filter: the entry is put in front of all the others
historyInsertKeepAll(h, entry) == << entry >> \o h

\* h => [entry, ...h.filter(x => x.code !== code)]
historyInsert(h, entry) == << entry >> \o SelectSeq(h, LAMBDA x : x.code # entry.code)

\* history.slice(0, 100)
slice(h, n) == SubSeq(h, 1, IF Len(h) < n THEN Len(h) ELSE n)

\* One call of fetchProduct: where it stands and its local variables
\*   pc    "idle" not called yet, "off" awaiting endpoint ep of fetchOFFChain,
\*         "ai" awaiting fetch("/api/eval"), "aibody" awaiting the response body,
\*         "done" returned through the try block, "caught" returned through catch
Lookup(pc, code, prof, ep, p, base, res) ==
  [ pc |-> pc, code |-> code, prof |-> prof, ep |-> ep, p |-> p, base |-> base, res |-> res ]

IdleLookup == Lookup("idle", "", Null, 0, Null, Null, Null)

\* A call that returned: its local variables are gone
DoneLookup == Lookup("done", "", Null, 0, Null, Null, Null)
CaughtLookup == Lookup("caught", "", Null, 0, Null, Null, Null)

-----------------------------------------------------------------------------
(* The client's handlers *)

\* The lookup the next call of fetchProduct runs as
nextLookup == CHOOSE t \in DOMAIN lookups :
  lookups[t].pc = "idle" /\ \A u \in 1..(t - 1) : lookups[u].pc # "idle"

canLookup == \E t \in DOMAIN lookups : lookups[t].pc = "idle"

\* Date.now(): the clock does not run backwards
clockReadings == { c \in now..(now + 1) : c <= MaxClock }

\* fetchProduct(code) up to its first await: the display is reset and the first
\* endpoint of fetchOFFChain is queried
fetchProductStart(code) ==
  /\ code # ""
  /\ canLookup
  /\ loading' = TRUE
  /\ error' = Null
  /\ product' = Null
  /\ status' = Null
  /\ notes' = <<>>
  /\ lookups' = [lookups EXCEPT ![nextLookup] = Lookup("off", code, profile, 1, Null, Null, Null)]
  /\ UNCHANGED << history, storedHistory, now >>

\* <input value={barcode} onChange={e => setBarcode(e.target.value)} />
TypeBarcode(code) ==
  /\ profile # Null
  /\ barcode # code
  /\ barcode' = code
  /\ UNCHANGED << profile, loading, error, product, status, notes, history, storedHistory,
                  scanning, now, lookups >>

\* <button onClick={() => barcode && fetchProduct(barcode)} disabled={!barcode || loading}>
SearchClick ==
  /\ profile # Null
  /\ barcode # "" /\ ~loading
  /\ fetchProductStart(barcode)
  /\ UNCHANGED << profile, barcode, scanning >>

\* onKeyDown={e => { if (e.key === "Enter" && barcode) fetchProduct(barcode); }}
EnterKey ==
  /\ profile # Null
  /\ barcode # ""
  /\ fetchProductStart(barcode)
  /\ UNCHANGED << profile, barcode, scanning >>

\* {history.map(h => <button key={h.code} onClick={() => fetchProduct(h.code)}>
HistoryClick(i) ==
  /\ i \in 1..Len(history)
  /\ fetchProductStart(history[i].code)
  /\ UNCHANGED << profile, barcode, scanning >>

\* the camera checkbox: onChange={e => { setError(null); setProduct(null); setStatus(null);
\* setNotes([]); setScanning(e.target.checked); }}
ToggleCamera ==
  /\ error' = Null
  /\ product' = Null
  /\ status' = Null
  /\ notes' = <<>>
  /\ scanning' = ~scanning
  /\ UNCHANGED << profile, barcode, loading, history, storedHistory, now, lookups >>

\* function clearHistory(){ setHistory([]); localStorage.removeItem("radka_scan_history"); }
\* and then the effect on [history], which stores the empty list
clearHistory ==
  /\ history' = <<>>
  /\ storedHistory' = slice(history', HistoryCap)
  /\ UNCHANGED << profile, barcode, loading, error, product, status, notes, scanning, now, lookups >>

\* fetchProduct, after the advisory call or without one: the history entry, then
\* finally { setLoading(false) }; the effect on [history] stores history.slice(0, 100)
finishLookup(t, p, base, ts) ==
  /\ history' = historyInsert(history, historyEntry(lookups[t].code, p, base, ts))
  /\ storedHistory' = slice(history', HistoryCap)
  /\ now' = ts
  /\ loading' = FALSE

\* The profiles loadProfile() finds stored
StoredProfiles == { Some(Profile("Ja", << "gluten" >>)) }

\* evaluateForProfile(p, prof).  Its values on the records of the database and the
\* stored profiles are computed once and looked up afterwards.
verdicts == [ q \in Catalogue, prof \in StoredProfiles |-> evaluateForProfile(q, prof) ]
localVerdict(p, prof) ==
  IF << p, prof >> \in DOMAIN verdicts THEN verdicts[p, prof] ELSE evaluateForProfile(p, prof)

\* fetchOFFChain: endpoint ep answered.  No match: the next endpoint is asked, and
\* after the last one the chain throws, which fetchProduct catches.  A match:
\* fetchProduct evaluates the product locally and either calls evaluateWithAI or
\* finishes.
OffReply(t, reply, ts) ==
  /\ lookups[t].pc = "off"
  /\ ts \in clockReadings
  /\ IF ~offMatches(reply)
       THEN IF lookups[t].ep < NumEndpoints
              THEN /\ lookups' = [lookups EXCEPT ![t].ep = @ + 1]
                   /\ UNCHANGED << loading, error, product, status, notes, history, storedHistory, now >>
              ELSE /\ lookups' = [lookups EXCEPT ![t] = CaughtLookup]
                   /\ error' = Some("Produkt sa nenasiel v SK/CZ/World databaze.")
                   /\ loading' = FALSE
                   /\ UNCHANGED << product, status, notes, history, storedHistory, now >>
       ELSE LET p == reply.product[1]
                base == localVerdict(p, lookups[t].prof)
            IN  /\ product' = Some(p)
                /\ status' = Some(base.status)
                /\ notes' = base.notes
                /\ error' = error
                /\ IF needsAI(base, p)
                     THEN /\ lookups' = [lookups EXCEPT ![t].pc = "ai", ![t].p = Some(p),
                                                        ![t].base = Some(base)]
                          /\ UNCHANGED << loading, history, storedHistory, now >>
                     ELSE /\ lookups' = [lookups EXCEPT ![t] = DoneLookup]
                          /\ finishLookup(t, p, base, ts)
  /\ UNCHANGED << profile, barcode, scanning >>

\* fetchProduct after `const ai = await evaluateWithAI(...)`:
\* if (ai.status) setStatus(ai.status); if (ai.notes?.length) setNotes(n => [...n, ...ai.notes]);
afterAI(t, ai, ts) ==
  /\ status' = IF ai.status # Null /\ ai.status[1] # "" THEN ai.status ELSE status
  /\ notes' = IF ai.notes # Null /\ Len(ai.notes[1]) > 0 THEN notes \o ai.notes[1] ELSE notes
  /\ lookups' = [lookups EXCEPT ![t] = DoneLookup]
  /\ finishLookup(t, lookups[t].p[1], lookups[t].base[1], ts)
  /\ UNCHANGED << profile, barcode, scanning, error, product >>

\* evaluateWithAI: fetch("/api/eval") rejected (a network error, or the abort after
\* 15 s); the catch branch returns and fetchProduct goes on
AiFetchFails(t, ts) ==
  /\ lookups[t].pc = "ai"
  /\ ts \in clockReadings
  /\ afterAI(t, evaluateWithAICatch, ts)

\* evaluateWithAI: fetch("/api/eval") resolved with the response's status line and
\* headers; clearTimeout(t); the body is read next
AiFetchResolves(t, r) ==
  /\ lookups[t].pc = "ai"
  /\ r \in AiResponses
  /\ lookups' = [lookups EXCEPT ![t].pc = "aibody", ![t].res = Some(r)]
  /\ UNCHANGED << profile, barcode, loading, error, product, status, notes, history,
                  storedHistory, scanning, now >>

\* evaluateWithAI: res.text() or res.json() settled; evaluateWithAI returns and
\* fetchProduct goes on
AiBodyRead(t, ts) ==
  /\ lookups[t].pc = "aibody"
  /\ ts \in clockReadings
  /\ afterAI(t, evaluateWithAI(lookups[t].res[1]), ts)

-----------------------------------------------------------------------------
(* The /api/eval handler: src/eval.ts (handler, setCors) and src/api/eval.ts
   (apiHandler, apiSetCors).  Origins are sequences of characters. *)

\* origin.startsWith(o)
startsWith(s, prefix) == Len(prefix) <= Len(s) /\ SubSeq(s, 1, Len(prefix)) = prefix

\* src/eval.ts: const ALLOW_ORIGINS = [...]
ALLOW_ORIGINS ==
  << <<"c","a","p","a","c","i","t","o","r",":","/","/","l","o","c","a","l","h","o","s","t">>,
     <<"h","t","t","p",":","/","/","l","o","c","a","l","h","o","s","t">>,
     <<"h","t","t","p",":","/","/","1","2","7",".","0",".","0",".","1">>,
     <<"h","t","t","p",":","/","/","l","o","c","a","l","h","o","s","t",":","5","1","7","3">>,
     <<"h","t","t","p","s",":","/","/","r","a","d","k","a","-","c","e","l","i","a","k","i","a",".","v","e","r","c","e","l",".","a","p","p">> >>

\* src/api/eval.ts: const ALLOW_ORIGINS = [...]
apiALLOW_ORIGINS ==
  << <<"c","a","p","a","c","i","t","o","r",":","/","/","l","o","c","a","l","h","o","s","t">>,
     <<"h","t","t","p",":","/","/","l","o","c","a","l","h","o","s","t">>,
     <<"h","t","t","p",":","/","/","1","2","7",".","0",".","0",".","1">>,
     <<"h","t","t","p","s",":","/","/","r","a","d","k","a","-","c","e","l","i","a","k","i","a",".","v","e","r","c","e","l",".","a","p","p">>,
     <<"h","t","t","p","s",":","/","/","i","n","t","o","l","e","r","a","n","c","i","e","s",".","v","e","r","c","e","l",".","a","p","p">> >>

Wildcard == << "*" >>

\* src/eval.ts setCors: the value of Access-Control-Allow-Origin.
\* allowed = origin && ALLOW_ORIGINS.some(o => origin.startsWith(o)); allowed ? origin : "*"
setCors(origin) ==
  IF origin # Null /\ origin[1] # <<>>
       /\ \E i \in 1..Len(ALLOW_ORIGINS) : startsWith(origin[1], ALLOW_ORIGINS[i])
    THEN origin[1]
    ELSE Wildcard

\* src/api/eval.ts setCors: the value of Access-Control-Allow-Origin.
\* o = origin || ''; ALLOW_ORIGINS.some(x => o.startsWith(x)) ? o : ALLOW_ORIGINS[3]
apiSetCors(origin) ==
  LET o == IF origin = Null THEN <<>> ELSE origin[1]
  IN  IF \E i \in 1..Len(apiALLOW_ORIGINS) : startsWith(o, apiALLOW_ORIGINS[i])
        THEN o
        ELSE apiALLOW_ORIGINS[4]

\* The Origin headers of the requests: none, the listed origins, a listed origin
\* with a port, and origins that are not listed, one of which begins with a listed one
EvilPrefixed == <<"h","t","t","p",":","/","/","l","o","c","a","l","h","o","s","t",".","e","v","i","l",".","e","x","a","m","p","l","e">>
Evil == <<"h","t","t","p","s",":","/","/","e","v","i","l",".","e","x","a","m","p","l","e">>
WithPort == <<"h","t","t","p",":","/","/","1","2","7",".","0",".","0",".","1",":","8","0","8","0">>
Origins ==
  { Null, Some(EvilPrefixed), Some(Evil), Some(WithPort) }
    \cup { Some(ALLOW_ORIGINS[i]) : i \in 1..Len(ALLOW_ORIGINS) }
    \cup { Some(apiALLOW_ORIGINS[i]) : i \in 1..Len(apiALLOW_ORIGINS) }

\* req.method
Methods == { "POST", "OPTIONS", "GET" }

\* req.body as the platform hands it over: "absent" is undefined (no body), "invalid"
\* makes the req.body getter throw (declared JSON that does not parse), "string" is a
\* text body (json is what JSON.parse makes of it, Null when it throws), "object" is
\* the parsed JSON object (code is its code member, Null when missing)
ReqBody(kind, json, code) == [ kind |-> kind, json |-> json, code |-> code ]
ReqBodies ==
  { ReqBody("absent", Null, Null),
    ReqBody("invalid", Null, Null),
    ReqBody("string", Null, Null),
    ReqBody("string", Some("c1"), Null),
    ReqBody("object", Null, Null),
    ReqBody("object", Null, Some("c1")) }

Request(method, origin, body) == [ method |-> method, origin |-> origin, body |-> body ]
Requests == { Request(m, o, b) : m \in Methods, o \in Origins, b \in ReqBodies }

\* The reply text of the language model as a sequence of segments separated by
\* blanks: plain words, a JSON object with its status and notes members, the JSON
\* literal null, and a block in braces that is not JSON
Segment(kind, st, nts) == [ kind |-> kind, status |-> st, notes |-> nts ]
Word == Segment("word", Null, Null)
JsonNull == Segment("null", Null, Null)
BadBlock == Segment("braces", Null, Null)
JsonObject(st, nts) == Segment("object", st, nts)
ModelNote == << "pozri etiketu", <<>> >>
Segments ==
  { Word, JsonNull, BadBlock,
    JsonObject(Some("avoid"), Some(<< ModelNote >>)),
    JsonObject(Some("maybe"), Null),
    JsonObject(Some("unknown"), Some(<<>>)),
    JsonObject(Null, Null) }

MaxContentLen == 2
Contents == UNION { [ 1..n -> Segments ] : n \in 0..MaxContentLen }

\* JSON.parse(text): the value, Null when it throws
JSONparse(text) ==
  IF Len(text) = 1 /\ text[1].kind \in { "object", "null" } THEN Some(text[1]) ELSE Null

\* text.match(/\{[\s\S]*\}/): the text from the first "{" to the last "}"
matchBraces(text) ==
  LET braced == { i \in 1..Len(text) : text[i].kind \in { "object", "braces" } }
  IN  IF braced = {} THEN Null
      ELSE Some(SubSeq(text, CHOOSE i \in braced : \A j \in braced : i <= j,
                             CHOOSE i \in braced : \A j \in braced : i >= j))

\* The answer of the text-generation service to the fetch: fetch rejects ("throws")
\* or resolves with resp.ok, resp.status and a body; the body is unreadable, text
\* that is not JSON, JSON null, a JSON object without choices, or a completion
\* whose message content is given
UpBody(kind, content) == [ kind |-> kind, content |-> content ]
UpBodies ==
  { UpBody(k, <<>>) : k \in { "unreadable", "notjson", "null", "nochoices" } }
    \cup { UpBody("content", c) : c \in Contents }
Upstream(fetch, ok, httpStatus, body) ==
  [ fetch |-> fetch, ok |-> ok, httpStatus |-> httpStatus, body |-> body ]
Upstreams ==
  { Upstream("throws", FALSE, "", UpBody("unreadable", <<>>)) }
    \cup { Upstream("resolves", TRUE, "200", b) : b \in UpBodies }
    \cup { Upstream("resolves", FALSE, "500", b) : b \in UpBodies }

\* process.env.OPENAI_API_KEY is set (key) and what the service would answer
Environment(key, upstream) == [ key |-> key, upstream |-> upstream ]
Environments == { Environment(k, u) : k \in BOOLEAN, u \in Upstreams }

\* res.status(c).json(body), res.status(c).end()
Body(ok, st, nts, err) == [ ok |-> ok, status |-> st, notes |-> nts, error |-> err ]
Json(c, body) == [ code |-> c, body |-> Some(body) ]
End(c) == [ code |-> c, body |-> Null ]
MaybeReply(nts) == Json(200, Body(TRUE, Some("maybe"), Some(nts), Null))
ErrorReply(c, err) == Json(c, Body(FALSE, Null, Null, Some(err)))

\* What one run of a handler did: the Access-Control-Allow-Origin header it set, the
\* responses it sent, whether it read req.body, read the credential, called the
\* service, and whether an exception left the handler
Run(acao, responses, bodyRead, keyRead, fetched, escaped) ==
  [ acao |-> acao, responses |-> responses, bodyRead |-> bodyRead, keyRead |-> keyRead,
    fetched |-> fetched, escaped |-> escaped ]

\* the two method tests of both handlers: OPTIONS, then anything but POST
methodGateAllPost(method) ==
  IF method = "OPTIONS" THEN "preflight" ELSE "post"

methodGate(method) ==
  IF method = "OPTIONS" THEN "preflight"
  ELSE IF method # "POST" THEN "reject"
  ELSE "post"

(* src/eval.ts *)

\* const { code, ... } = req.body ?? {}
bodyCode(body) == IF body.kind = "object" THEN body.code ELSE Null

\* the catch of the handler
Caught == MaybeReply(<< << "AI vynimka na serveri.", <<>> >>, << "e.message", <<>> >> >>)

\* parsed after the two attempts: Null is null
parseReply(content) ==
  LET m == matchBraces(content)
  IN  IF JSONparse(content) # Null THEN JSONparse(content)
      ELSE IF m # Null THEN JSONparse(m[1])
      ELSE Null

\* parsed?.status and parsed?.notes: Null is undefined
memberStatus(parsed) ==
  IF parsed # Null /\ parsed[1].kind = "object" THEN parsed[1].status ELSE Null
memberNotes(parsed) ==
  IF parsed # Null /\ parsed[1].kind = "object" THEN parsed[1].notes ELSE Null

\* st, nts and the response built from the reply text
sanitize(content) ==
  LET parsed == parseReply(content)
      st == IF memberStatus(parsed) # Null /\ memberStatus(parsed)[1] \in { "safe", "avoid", "maybe" }
              THEN memberStatus(parsed)[1] ELSE "maybe"
      nts == IF memberNotes(parsed) # Null THEN memberNotes(parsed)[1]
             ELSE << << "content", content >> >>
  IN  Json(200, Body(TRUE, Some(st), Some(nts), Null))

\* the !resp.ok branch
failedReply(up) ==
  MaybeReply(<< << "AI poziadavka zlyhala.", <<>> >>,
                << "resp.status txt",
                   << up.httpStatus, IF up.body.kind = "unreadable" THEN "" ELSE up.body.kind >> >> >>)

\* a variant without the !resp.ok branch
upstreamReplyNoOkTest(up) ==
  IF up.fetch = "throws" THEN Caught
  ELSE IF up.body.kind \in { "unreadable", "notjson", "null" } THEN Caught
  ELSE sanitize(up.body.content)

\* from the fetch to the response
upstreamReply(up) ==
  IF up.fetch = "throws" THEN Caught
  ELSE IF ~up.ok THEN failedReply(up)
  ELSE IF up.body.kind \in { "unreadable", "notjson", "null" } THEN Caught
  ELSE sanitize(up.body.content)

handler(rq, env) ==
  LET acao == setCors(rq.origin)
  IN  CASE methodGate(rq.method) = "preflight" ->
             Run(acao, << End(200) >>, FALSE, FALSE, FALSE, FALSE)
        [] methodGate(rq.method) = "reject" ->
             Run(acao, << ErrorReply(405, "Method Not Allowed") >>, FALSE, FALSE, FALSE, FALSE)
        [] OTHER ->
             IF rq.body.kind = "invalid"
               THEN Run(acao, << Caught >>, TRUE, FALSE, FALSE, FALSE)
             ELSE IF bodyCode(rq.body) = Null
               THEN Run(acao, << ErrorReply(400, "Missing code") >>, TRUE, FALSE, FALSE, FALSE)
             ELSE IF ~env.key
               THEN Run(acao,
                        << MaybeReply(<< << "AI kluc nie je nastaveny na serveri.", <<>> >> >>) >>,
                        TRUE, TRUE, FALSE, FALSE)
             ELSE Run(acao, << upstreamReply(env.upstream) >>, TRUE, TRUE, TRUE, FALSE)

(* src/api/eval.ts *)

\* the catch around the fetch
apiCaught == MaybeReply(<< << "AI poziadavka zlyhala.", <<>> >>, << "e.message", <<>> >> >>)

\* parsed after the two attempts; starts as {}
apiParseReply(content) ==
  LET m == matchBraces(content)
  IN  IF JSONparse(content) # Null THEN JSONparse(content)[1]
      ELSE IF m # Null /\ JSONparse(m[1]) # Null THEN JSONparse(m[1])[1]
      ELSE JsonObject(Null, Null)

\* parsed.notes.slice(0, 5)
MaxNotes == 5

\* st, notes and the response; parsed.status of null throws into the catch
apiSanitize(content) ==
  LET parsed == apiParseReply(content)
      st == IF parsed.status # Null /\ parsed.status[1] \in { "safe", "avoid" }
              THEN parsed.status[1] ELSE "maybe"
      nts == IF parsed.notes # Null /\ Len(parsed.notes[1]) > 0
               THEN slice(parsed.notes[1], MaxNotes)
               ELSE << << "Nedostatocne udaje.", <<>> >> >>
  IN  IF parsed.kind = "null" THEN apiCaught
      ELSE Json(200, Body(TRUE, Some(st), Some(nts), Null))

\* from the fetch to the response
apiUpstreamReply(up) ==
  IF up.fetch = "throws" THEN apiCaught
  ELSE IF ~up.ok
    THEN IF up.body.kind = "unreadable" THEN apiCaught
         ELSE MaybeReply(<< << "AI poziadavka zlyhala (HTTP).", << up.httpStatus >> >>,
                            << "txt", << up.body.kind >> >> >>)
  ELSE IF up.body.kind \in { "unreadable", "notjson", "null" } THEN apiCaught
  ELSE IF up.body.kind = "nochoices" THEN apiSanitize(<< JsonObject(Null, Null) >>)
  ELSE apiSanitize(up.body.content)

apiHandler(rq, env) ==
  LET acao == apiSetCors(rq.origin)
  IN  CASE methodGate(rq.method) = "preflight" ->
             Run(acao, << End(204) >>, FALSE, FALSE, FALSE, FALSE)
        [] methodGate(rq.method) = "reject" ->
             Run(acao, << ErrorReply(405, "Method not allowed") >>, FALSE, FALSE, FALSE, FALSE)
        [] OTHER ->
             IF ~env.key
               THEN Run(acao,
                        << MaybeReply(<< << "Chyba OPENAI_API_KEY na Verceli.", <<>> >> >>) >>,
                        FALSE, TRUE, FALSE, FALSE)
             ELSE IF rq.body.kind = "invalid" \/ (rq.body.kind = "string" /\ rq.body.json = Null)
               THEN Run(acao, << ErrorReply(400, "Bad JSON body") >>, TRUE, TRUE, FALSE, FALSE)
             ELSE IF rq.body.kind = "absent"
               THEN Run(acao, <<>>, TRUE, TRUE, FALSE, TRUE)
             ELSE Run(acao, << apiUpstreamReply(env.upstream) >>, TRUE, TRUE, TRUE, FALSE)

-----------------------------------------------------------------------------
(* The state outside the lookups: the scanner, the camera, the stored profile *)

\* src/App.tsx before the camera was ever switched on: useState("") of deviceId,
\* useState([]) of devices, useRef(false) of gotOneRef, useRef(null) of readerRef;
\* accepted counts the payloads the callback accepted since scanning was last switched
\* on, ignored tells whether it has returned early on a payload since then
ScanOff ==
  [ deviceId |-> Null, devices |-> <<>>, probes |-> <<>>, gotOne |-> FALSE, reader |-> "none",
    armed |-> FALSE, stream |-> FALSE, late |-> 0, accepted |-> 0, ignored |-> 0 ]

\* The number of calls of startCamera in one run
MaxStarts == 2

\* src/src/App.tsx before the camera was ever switched on: useState(false) of cameraOn,
\* useRef(null) of streamRef and controlsRef, no call of startCamera pending
CamOff ==
  [ on |-> FALSE, mounted |-> TRUE, starts |-> [ i \in 1..MaxStarts |-> "none" ], streamRef |-> Null,
    open |-> {}, controlsRef |-> Null, loops |-> {} ]

\* useState<Profile>({ name: "", intolerances: ["lepok"] })
DefaultTagProfile == Profile("", << "lepok" >>)

\* No call of fetchOFFChain under observation
ChainIdle == [ answers |-> <<>>, out |-> Null ]

\* fetchOFFChain: for (const url of endpoints) { try { ... return j; } catch {} }
\* throw new Error(...).  answers[ep] is what endpoint ep (1 sk, 2 cz, 3 world) would
\* answer; queried is the number of endpoints fetched, found is the product of the
\* body returned, Null when the function throws.
RECURSIVE offChainFrom(_, _)
offChainFrom(answers, ep) ==
  IF ep > NumEndpoints THEN [ queried |-> NumEndpoints, found |-> Null ]
  ELSE IF offMatches(answers[ep]) THEN [ queried |-> ep, found |-> answers[ep].product ]
  ELSE offChainFrom(answers, ep + 1)

fetchOFFChain(answers) == offChainFrom(answers, 1)

\* The answers of the three endpoints to the request for one code
ChainAnswers == UNION { [ 1..NumEndpoints -> OffReplies(code) ] : code \in Codes }

-----------------------------------------------------------------------------
(* The profile: toggleIntol, completeProfile (src/App.tsx), toggleTag
   (src/src/App.tsx) *)

\* The elements of a list
Range(s) == { s[i] : i \in 1..Len(s) }

\* cur.intolerances.filter(k => k !== key)
without(list, key) == SelectSeq(list, LAMBDA k : k # key)

\* The text typed into the name field (nameDraft): nothing, a blank, a name
Drafts == { "", " ", "Eva" }

\* String.prototype.trim on the drafts: only the blank has white space to strip
trim(draft) == IF draft = " " THEN "" ELSE draft

\* a || b on strings: the empty string is falsy
orElse(a, b) == IF a = "" THEN b ELSE a

\* intolerances: ["gluten","milk_protein"]
DefaultIntolerances == << "gluten", "milk_protein" >>

\* The updater toggleIntol gives to setProfile: prev is the profile or Null
toggleIntol(prev, key, nameDraft) ==
  LET cur == IF prev = Null THEN Profile(orElse(nameDraft, ""), <<>>) ELSE prev[1]
      exists == key \in Range(cur.intolerances)
  IN  [ cur EXCEPT !.intolerances = IF exists THEN without(cur.intolerances, key)
                                              ELSE Append(cur.intolerances, key) ]

\* The profile completeProfile sets and saves
completeProfile(prev, nameDraft) ==
  LET name == orElse(trim(orElse(nameDraft, "")), "Ja")
  IN  Profile(name, IF prev # Null /\ Len(prev[1].intolerances) > 0 THEN prev[1].intolerances
                    ELSE DefaultIntolerances)

\* The profile the button "use the defaults" sets and saves
useDefaults(nameDraft) == Profile(orElse(nameDraft, "Ja"), DefaultIntolerances)

\* A button of the category grid, rendered while there is no profile ({!profile && ...});
\* the updater calls saveProfile(next)
ToggleIntol(key, nameDraft) ==
  /\ profile = Null
  /\ profile' = Some(toggleIntol(profile, key, nameDraft))
  /\ storedProfile' = profile'

\* The button completeProfile of the same block
CompleteProfile(nameDraft) ==
  /\ profile = Null
  /\ profile' = Some(completeProfile(profile, nameDraft))
  /\ storedProfile' = profile'

\* The button next to it: setProfile({...}); saveProfile({...})
UseDefaults(nameDraft) ==
  /\ profile = Null
  /\ profile' = Some(useDefaults(nameDraft))
  /\ storedProfile' = profile'

\* The button of the header: setProfile(null); localStorage keeps the saved profile
ChangeProfile ==
  /\ profile # Null
  /\ profile' = Null
  /\ UNCHANGED storedProfile

\* The page is loaded again: useState<Profile | null>(loadProfile())
Reload ==
  /\ profile # storedProfile
  /\ profile' = storedProfile
  /\ UNCHANGED storedProfile

\* src/src/App.tsx: const ALL_TAGS = [...]
ALL_TAGS ==
  << "lepok", "mlieko", "so'ja", "orechy", "vajcia", "ryby", "horc^ica", "aras^i'dy", "zeler",
     "ma:kky's^e", "sezam" >>

\* The number of tags of ALL_TAGS, from its start, whose buttons are clicked
MaxTags == 3

\* The updater toggleTag gives to setProfile
toggleTagAppend(p, tag) == [ p EXCEPT !.intolerances = Append(p.intolerances, tag) ]

toggleTag(p, tag) ==
  LET has == tag \in Range(p.intolerances)
  IN  [ p EXCEPT !.intolerances = IF has THEN without(p.intolerances, tag)
                                         ELSE Append(p.intolerances, tag) ]

\* A button of ALL_TAGS.map(...); the effect on [profile] writes the new profile to
\* localStorage, so the stored profile is the same value
ToggleTag(tag) ==
  /\ tagProfile' = toggleTag(tagProfile, tag)

\* The profiles localStorage may hold when the page of src/App.tsx is loaded: none,
\* or one that was saved, with up to MaxProfileLen categories
StoredProfileInputs ==
  { Null } \cup { Some(Profile("Ja", list)) : list \in DistinctSeqs(Keys, MaxProfileLen) }

-----------------------------------------------------------------------------
(* The scanner of src/App.tsx: the two effects on scanning, stopReader,
   switchCamera and the decoder's callback *)

\* The cameras enumerateDevices may list
Cameras == << "cam1", "cam2" >>

\* The lists of video inputs enumerateDevices may return
CameraLists == { <<>>, << "cam1" >>, << "cam1", "cam2" >>, << "cam2", "cam1" >> }

\* The number of calls of the first effect's async function pending at a time
MaxProbes == 2

\* The number of frames a reader may still deliver after it was reset
MaxLate == 2

\* function stopReader(): readerRef.current?.reset() stops the reader (the frames it
\* was decoding may still be delivered: late), and the tracks of the video's stream
\* are stopped
stopReader(s) ==
  [ s EXCEPT !.reader = IF @ = "none" THEN "none" ELSE "reset",
             !.late = IF s.reader = "decoding" THEN MaxLate ELSE @,
             !.stream = FALSE ]

\* The second effect, run by React when scanning or deviceId has changed: the
\* clean-up of the previous run (return () => stopReader()) if that run had got past
\* its first line, then
\*   if (!scanning || !deviceId || !videoRef.current) return;
\*   gotOneRef.current = false; readerRef.current = new BrowserMultiFormatReader();
\*   reader.decodeFromVideoDevice(deviceId, videoRef.current, callback)
\* The video element is rendered while there is a profile and scanning is on.
decodeEffect(s, scanningNow) ==
  LET cleaned == IF s.armed THEN stopReader(s) ELSE s
  IN  IF scanningNow /\ cleaned.deviceId # Null /\ profile # Null
        THEN [ cleaned EXCEPT !.gotOne = FALSE, !.reader = "starting", !.armed = TRUE ]
        ELSE [ cleaned EXCEPT !.armed = FALSE ]

\* The effects after a render in which scanning or deviceId may have changed
afterRender(s, old, scanningNow) ==
  IF s.deviceId # old.deviceId \/ scanningNow # scanning THEN decodeEffect(s, scanningNow) ELSE s

\* The first effect, run when scanning has become true: its async function is
\* started with the deviceId of that render
probeEffect(s, scanningNow) ==
  IF scanningNow /\ ~scanning
    THEN [ s EXCEPT !.probes = Append(@, s.deviceId), !.accepted = 0, !.ignored = 0 ]
  ELSE s

\* The camera checkbox, with the effects of the render that follows
ScanToggle ==
  /\ scanning \/ Len(scan.probes) < MaxProbes
  /\ ToggleCamera
  /\ scan' = probeEffect(afterRender(scan, scan, ~scanning), ~scanning)

\* The sequence s without its element i
dropAt(s, i) == [ j \in 1..(Len(s) - 1) |-> IF j < i THEN s[j] ELSE s[j + 1] ]

\* The first effect's async function i goes on after enumerateDevices: setDevices(cams);
\* if (!deviceId) setDeviceId(back?.deviceId ?? cams[0]?.deviceId ?? null), where
\* deviceId is the one of the render that started it and back, the camera whose
\* label says it faces backwards, is any camera of the list or none
ProbeResolves(i, cams, back) ==
  /\ i \in 1..Len(scan.probes)
  /\ cams \in CameraLists
  /\ back \in 0..Len(cams)
  /\ LET chosen == IF back > 0 THEN Some(cams[back])
                   ELSE IF Len(cams) > 0 THEN Some(cams[1]) ELSE Null
         s1 == [ scan EXCEPT !.probes = dropAt(@, i), !.devices = cams,
                             !.deviceId = IF scan.probes[i] = Null THEN chosen ELSE @ ]
     IN  scan' = afterRender(s1, scan, scanning)
  /\ UNCHANGED << profile, barcode, loading, error, product, status, notes, history,
                  storedHistory, scanning, now, lookups >>

\* The first effect's async function i fails (getUserMedia or enumerateDevices
\* rejects): setError(...); setScanning(false)
ProbeFails(i) ==
  /\ i \in 1..Len(scan.probes)
  /\ error' = Some("Kameru sa nepodarilo inicializovat. Skontroluj povolenia.")
  /\ scanning' = FALSE
  /\ scan' = afterRender([ scan EXCEPT !.probes = dropAt(@, i) ], scan, FALSE)
  /\ UNCHANGED << profile, barcode, loading, product, status, notes, history, storedHistory,
                  now, lookups >>

\* decodeFromVideoDevice has opened the camera and decodes its frames
DecoderStarts ==
  /\ scan.reader = "starting"
  /\ scan' = [ scan EXCEPT !.reader = "decoding", !.stream = TRUE ]
  /\ UNCHANGED << profile, barcode, loading, error, product, status, notes, history,
                  storedHistory, scanning, now, lookups >>

\* decodeFromVideoDevice rejects: .catch(() => { setError(...); setScanning(false);
\* stopReader(); })
DecoderFails ==
  /\ scan.reader = "starting"
  /\ error' = Some("Nepodarilo sa spustit dekodovanie videa.")
  /\ scanning' = FALSE
  /\ scan' = afterRender(stopReader(scan), scan, FALSE)
  /\ UNCHANGED << profile, barcode, loading, product, status, notes, history, storedHistory,
                  now, lookups >>

\* if (!result || gotOneRef.current) return;
acceptsAnyResult(result, gotOne) == result # Null

acceptsResult(result, gotOne) == result # Null /\ ~gotOne

\* The callback given to decodeFromVideoDevice, called by the reader for a frame:
\* result is the payload decoded or Null; frame is "live" for a frame of the running
\* reader and "late" for the frame a reader was decoding when it was reset
onDecode(result, frame) ==
  /\ \/ frame = "live" /\ scan.reader = "decoding"
     \/ frame = "late" /\ scan.late > 0
  /\ LET s0 == IF frame = "late" THEN [ scan EXCEPT !.late = @ - 1 ] ELSE scan
     IN  IF acceptsResult(result, scan.gotOne)
           THEN /\ barcode' = result[1]
                /\ scanning' = FALSE
                /\ fetchProductStart(result[1])
                /\ scan' = afterRender(
                             stopReader([ s0 EXCEPT !.gotOne = TRUE, !.accepted = @ + 1 ]),
                             scan, FALSE)
                /\ UNCHANGED profile
           ELSE /\ scan' = [ s0 EXCEPT !.ignored = IF result # Null THEN 1 ELSE @ ]
                /\ UNCHANGED << profile, barcode, loading, error, product, status, notes, history,
                  storedHistory, scanning, now, lookups >>

\* The position of deviceId in devices: devices.findIndex(d => d.deviceId === deviceId)
findIndex(list, id) ==
  IF \E i \in 1..Len(list) : Some(list[i]) = id
    THEN (CHOOSE i \in 1..Len(list) : Some(list[i]) = id) - 1
    ELSE -1

\* function switchCamera(): the next camera of the list, round the end
switchCamera ==
  /\ Len(scan.devices) > 0
  /\ LET found == findIndex(scan.devices, scan.deviceId)
         idx == IF found > 0 THEN found ELSE 0
         next == scan.devices[((idx + 1) % Len(scan.devices)) + 1]
     IN  scan' = afterRender([ scan EXCEPT !.deviceId = Some(next) ], scan, scanning)
  /\ UNCHANGED << profile, barcode, loading, error, product, status, notes, history,
                  storedHistory, scanning, now, lookups >>

-----------------------------------------------------------------------------
(* The camera of src/src/App.tsx: startCamera, stopCamera and the effect on
   cameraOn *)

\* The places of a call of startCamera (cam.starts): "none" not made, "gum" awaiting
\* getUserMedia, "play" awaiting v.play(), "decode" awaiting decodeFromVideoDevice,
\* "done" returned, "failed" thrown

\* const stopCamera = () => { controlsRef.current?.stop(); controlsRef.current = null;
\* streamRef.current?.getTracks().forEach(t => t.stop()); streamRef.current = null; ... }
\* open are the streams whose tracks run, loops the decode loops that run; the stream
\* and the loop of call i of startCamera are named i
stopCamera(c) ==
  [ c EXCEPT !.loops = IF c.controlsRef = Null THEN @ ELSE @ \ { c.controlsRef[1] },
             !.controlsRef = Null,
             !.open = IF c.streamRef = Null THEN @ ELSE @ \ { c.streamRef[1] },
             !.streamRef = Null ]

\* The next call of startCamera
nextStart(c) == CHOOSE i \in 1..MaxStarts : c.starts[i] = "none" /\ \A j \in 1..(i - 1) : c.starts[j] # "none"

\* The effect on [cameraOn] after a render in which cameraOn has changed to onNow: the
\* clean-up of the previous run (stopCamera), then
\*   if (cameraOn) startCamera().catch(() => setCameraOn(false)); else stopCamera();
\* startCamera runs up to its first await: getUserMedia is pending
cameraEffect(c, onNow) ==
  LET cleaned == [ stopCamera(c) EXCEPT !.on = onNow ]
  IN  IF onNow THEN [ cleaned EXCEPT !.starts[nextStart(c)] = "gum" ]
      ELSE stopCamera(cleaned)

\* The camera button: setCameraOn(v => !v)
CamToggle ==
  /\ cam.mounted
  /\ cam.on \/ \E i \in 1..MaxStarts : cam.starts[i] = "none"
  /\ cam' = cameraEffect(cam, ~cam.on)

\* App is unmounted: the clean-up of the effect runs
Unmount ==
  /\ cam.mounted
  /\ cam' = [ stopCamera(cam) EXCEPT !.mounted = FALSE ]

\* startCamera().catch(() => setCameraOn(false)): call i has thrown
startFailed(c, i) ==
  LET failed == [ c EXCEPT !.starts[i] = "failed" ]
  IN  IF c.on /\ c.mounted THEN cameraEffect(failed, FALSE) ELSE failed

\* Call i: getUserMedia resolves; streamRef.current = stream; v.srcObject = stream;
\* v.play() is pending
GumResolves(i) ==
  /\ cam.starts[i] = "gum"
  /\ cam' = [ cam EXCEPT !.starts[i] = "play", !.open = @ \cup { i }, !.streamRef = Some(i) ]

\* Call i: getUserMedia rejects
GumRejects(i) ==
  /\ cam.starts[i] = "gum"
  /\ cam' = startFailed(cam, i)

\* Call i: v.play() settles; applyConstraints is tried, its failure ignored;
\* readerRef.current = new BrowserMultiFormatReader(); decodeFromVideoDevice is pending
PlaySettles(i, played) ==
  /\ cam.starts[i] = "play"
  /\ cam' = IF played THEN [ cam EXCEPT !.starts[i] = "decode" ] ELSE startFailed(cam, i)

\* Call i: decodeFromVideoDevice settles; controlsRef.current = its controls, the
\* decode loop runs
DecodeSettles(i, started) ==
  /\ cam.starts[i] = "decode"
  /\ cam' = IF started
              THEN [ cam EXCEPT !.starts[i] = "done", !.controlsRef = Some(i), !.loops = @ \cup { i } ]
              ELSE startFailed(cam, i)

-----------------------------------------------------------------------------
(* The specifications *)

vars == << evalP, evalProf, evalOut, profile, barcode, loading, error, product, status, notes,
           history, storedHistory, scanning, now, lookups, req, osEnv, deployed, ran,
           chain, scan, cam, storedProfile, tagProfile >>

evalVars == << evalP, evalProf, evalOut >>

serverVars == << req, osEnv, deployed, ran >>

sideVars == << chain, scan, cam, storedProfile, tagProfile >>

\* Nothing but the lookups under observation: the camera was never switched on, the
\* profile is the stored one
Quiet ==
  /\ chain = ChainIdle
  /\ scan = ScanOff
  /\ cam = CamOff
  /\ storedProfile = profile
  /\ tagProfile = DefaultTagProfile

\* No request has reached /api/eval
NoRequest ==
  /\ req = Request("GET", Null, ReqBody("absent", Null, Null))
  /\ osEnv = Environment(FALSE, Upstream("throws", FALSE, "", UpBody("unreadable", <<>>)))
  /\ deployed = "src/eval.ts"
  /\ ran = Null

clientVars == << profile, barcode, loading, error, product, status, notes, history,
                 storedHistory, scanning, now, lookups >>

\* The state after App's first render: useState's initial values
InitApp ==
  /\ profile \in StoredProfiles
  /\ barcode = ""
  /\ loading = FALSE
  /\ error = Null
  /\ product = Null
  /\ status = Null
  /\ notes = <<>>
  /\ history = <<>>
  /\ storedHistory = <<>>
  /\ scanning = FALSE
  /\ now = 0

\* The state after App's first render, with no call of fetchProduct made yet
InitClient ==
  /\ InitApp
  /\ lookups = [t \in 1..MaxLookups |-> IdleLookup]

Init ==
  /\ InitClient
  /\ evalP = EmptyProduct /\ evalProf = Null /\ evalOut = Null
  /\ NoRequest
  /\ Quiet

Next ==
  \/ \E code \in Codes \cup {""} : TypeBarcode(code) /\ UNCHANGED << evalVars, serverVars, sideVars >>
  \/ SearchClick /\ UNCHANGED << evalVars, serverVars, sideVars >>
  \/ EnterKey /\ UNCHANGED << evalVars, serverVars, sideVars >>
  \/ \E i \in 1..Len(history) : HistoryClick(i) /\ UNCHANGED << evalVars, serverVars, sideVars >>
  \/ ToggleCamera /\ UNCHANGED << evalVars, serverVars, sideVars >>
  \/ \E t \in 1..MaxLookups, ts \in 0..MaxClock :
        \E reply \in OffReplies(lookups[t].code) : OffReply(t, reply, ts) /\ UNCHANGED << evalVars, serverVars, sideVars >>
  \/ \E t \in 1..MaxLookups, ts \in 0..MaxClock : AiFetchFails(t, ts) /\ UNCHANGED << evalVars, serverVars, sideVars >>
  \/ \E t \in 1..MaxLookups, r \in AiResponses : AiFetchResolves(t, r) /\ UNCHANGED << evalVars, serverVars, sideVars >>
  \/ \E t \in 1..MaxLookups, ts \in 0..MaxClock : AiBodyRead(t, ts) /\ UNCHANGED << evalVars, serverVars, sideVars >>

Spec == Init /\ [][Next]_vars

-----------------------------------------------------------------------------
(* The specification of evaluateForProfile as a function of its inputs *)

InitEval ==
  /\ \E in \in EvalInputs : evalP = in[1] /\ evalProf = in[2]
  /\ evalOut = Null
  /\ InitClient
  /\ NoRequest
  /\ Quiet

\* const base = evaluateForProfile(p, profile)
Evaluate ==
  /\ evalOut = Null
  /\ evalOut' = Some(evaluateForProfile(evalP, evalProf))
  /\ UNCHANGED << evalP, evalProf >>

NextEval == Evaluate /\ UNCHANGED << clientVars, serverVars, sideVars >>

SpecEval == InitEval /\ [][NextEval]_vars

-----------------------------------------------------------------------------
(* The history of lookups: the entry fetchProduct writes, clearHistory *)

\* The number of fetchProduct calls of one run of SpecHist
MaxHistLookups == 3

\* The database records of the runs of SpecHist: two records of c1 that the local
\* rules settle, with different verdicts, and one of c2 that goes to the advisory call
HistCatalogue == { q \in Catalogue : q.product_name \in { "Chlieb", "Ryzovy chlebik", "Voda" } }

\* The endpoint replies of the runs of SpecHist: a match.  A lookup that finds no
\* product leaves the history as it is (OffReply), so the replies without a match
\* are left to Spec.
HistOffReplies(code) ==
  { r \in OffReplies(code) : r.kind = "match" /\ r.product[1] \in HistCatalogue }

\* The advisory replies of the runs of SpecHist: a reply with the status safe
HistAiResponses == { r \in AiResponses : r.data # Null /\ r.data[1].status = Some("safe") }

InitHist ==
  /\ InitApp
  /\ lookups = [t \in 1..MaxHistLookups |-> IdleLookup]
  /\ evalP = EmptyProduct /\ evalProf = Null /\ evalOut = Null
  /\ NoRequest
  /\ Quiet

\* The handlers that start a lookup, write the history or clear it.  The camera
\* checkbox touches neither the history nor a lookup and is left out.
NextHist ==
  \/ \E code \in Codes : TypeBarcode(code) /\ UNCHANGED << evalVars, serverVars, sideVars >>
  \/ SearchClick /\ UNCHANGED << evalVars, serverVars, sideVars >>
  \/ EnterKey /\ UNCHANGED << evalVars, serverVars, sideVars >>
  \/ \E i \in 1..Len(history) : HistoryClick(i) /\ UNCHANGED << evalVars, serverVars, sideVars >>
  \/ clearHistory /\ UNCHANGED << evalVars, serverVars, sideVars >>
  \/ \E t \in DOMAIN lookups, ts \in 0..MaxClock :
        \E reply \in HistOffReplies(lookups[t].code) : OffReply(t, reply, ts) /\ UNCHANGED << evalVars, serverVars, sideVars >>
  \/ \E t \in DOMAIN lookups, ts \in 0..MaxClock : AiFetchFails(t, ts) /\ UNCHANGED << evalVars, serverVars, sideVars >>
  \/ \E t \in DOMAIN lookups, r \in HistAiResponses : AiFetchResolves(t, r) /\ UNCHANGED << evalVars, serverVars, sideVars >>
  \/ \E t \in DOMAIN lookups, ts \in 0..MaxClock : AiBodyRead(t, ts) /\ UNCHANGED << evalVars, serverVars, sideVars >>

SpecHist == InitHist /\ [][NextHist]_vars

-----------------------------------------------------------------------------
(* The length of the history: lookups of more distinct codes than the cap *)

\* The code of the n-th lookup: the codes differ, and nothing else about them matters
codeOf(n) == ToString(n)

\* The reply of the database for the code: a record the local rules settle (avoid),
\* so that no advisory call is made
CapReply(code) ==
  [ kind |-> "match",
    product |-> Some(OffProduct(code, "", Product("Vyrobok", <<>>, <<>>, <<>>, WheatFlour, <<>>, <<>>, <<>>, <<>>))) ]

InitCap ==
  /\ InitApp
  /\ lookups = [t \in 1..(HistoryCap + 1) |-> IdleLookup]
  /\ evalP = EmptyProduct /\ evalProf = Null /\ evalOut = Null
  /\ NoRequest
  /\ Quiet

\* One lookup after the other, each of a code not looked up before: the code is
\* typed, the search button is clicked, the first endpoint answers with the record.
\* The lookups all fall into one reading of the clock.
NextCap ==
  \/ \E code \in { codeOf(Len(history) + 1) } : TypeBarcode(code) /\ UNCHANGED << evalVars, serverVars, sideVars >>
  \/ SearchClick /\ UNCHANGED << evalVars, serverVars, sideVars >>
  \/ \E t \in DOMAIN lookups, ts \in { now } :
        OffReply(t, CapReply(lookups[t].code), ts) /\ UNCHANGED << evalVars, serverVars, sideVars >>

SpecCap == InitCap /\ [][NextCap]_vars

-----------------------------------------------------------------------------
(* The specification of the /api/eval handlers: one request, handled once by the
   handler of the file that is deployed *)

InitHandler ==
  /\ req \in Requests
  /\ osEnv \in Environments
  /\ deployed \in { "src/eval.ts", "src/api/eval.ts" }
  /\ ran = Null
  /\ InitClient
  /\ Quiet
  /\ evalP = EmptyProduct /\ evalProf = Null /\ evalOut = Null

\* src/eval.ts: export default async function handler(req, res)
Handle ==
  /\ deployed = "src/eval.ts"
  /\ ran = Null
  /\ ran' = Some(handler(req, osEnv))
  /\ UNCHANGED << req, osEnv, deployed >>

\* src/api/eval.ts: export default async function handler(req, res)
ApiHandle ==
  /\ deployed = "src/api/eval.ts"
  /\ ran = Null
  /\ ran' = Some(apiHandler(req, osEnv))
  /\ UNCHANGED << req, osEnv, deployed >>

NextHandler ==
  \/ Handle /\ UNCHANGED << evalVars, clientVars, sideVars >>
  \/ ApiHandle /\ UNCHANGED << evalVars, clientVars, sideVars >>

SpecHandler == InitHandler /\ [][NextHandler]_vars

-----------------------------------------------------------------------------
(* The specification of fetchOFFChain as a function of the endpoints' answers *)

InitChain ==
  /\ \E a \in ChainAnswers : chain = [ answers |-> a, out |-> Null ]
  /\ scan = ScanOff
  /\ cam = CamOff
  /\ InitClient
  /\ storedProfile = profile
  /\ tagProfile = DefaultTagProfile
  /\ NoRequest
  /\ evalP = EmptyProduct /\ evalProf = Null /\ evalOut = Null

\* const off = await fetchOFFChain(code)
RunChain ==
  /\ chain.out = Null
  /\ chain' = [ chain EXCEPT !.out = Some(fetchOFFChain(chain.answers)) ]
  /\ UNCHANGED << scan, cam, storedProfile, tagProfile >>

NextChain == RunChain /\ UNCHANGED << evalVars, clientVars, serverVars >>

SpecChain == InitChain /\ [][NextChain]_vars

-----------------------------------------------------------------------------
(* The specification of the profile's handlers in both files *)

InitProfile ==
  /\ storedProfile \in StoredProfileInputs
  /\ profile = storedProfile
  /\ tagProfile = DefaultTagProfile
  /\ barcode = "" /\ loading = FALSE /\ error = Null /\ product = Null /\ status = Null
  /\ notes = <<>> /\ history = <<>> /\ storedHistory = <<>> /\ scanning = FALSE /\ now = 0
  /\ lookups = [t \in 1..MaxLookups |-> IdleLookup]
  /\ chain = ChainIdle /\ scan = ScanOff /\ cam = CamOff
  /\ NoRequest
  /\ evalP = EmptyProduct /\ evalProf = Null /\ evalOut = Null

profileVars == << profile, storedProfile, tagProfile >>

restVars ==
  << barcode, loading, error, product, status, notes, history, storedHistory, scanning, now,
     lookups, chain, scan, cam >>

NextProfile ==
  \/ \E key \in Keys, nameDraft \in Drafts :
        ToggleIntol(key, nameDraft) /\ UNCHANGED << tagProfile, restVars, evalVars, serverVars >>
  \/ \E nameDraft \in Drafts :
        CompleteProfile(nameDraft) /\ UNCHANGED << tagProfile, restVars, evalVars, serverVars >>
  \/ \E nameDraft \in Drafts :
        UseDefaults(nameDraft) /\ UNCHANGED << tagProfile, restVars, evalVars, serverVars >>
  \/ ChangeProfile /\ UNCHANGED << tagProfile, restVars, evalVars, serverVars >>
  \/ Reload /\ UNCHANGED << tagProfile, restVars, evalVars, serverVars >>
  \/ \E i \in 1..MaxTags :
        ToggleTag(ALL_TAGS[i])
          /\ UNCHANGED << profile, storedProfile, restVars, evalVars, serverVars >>

SpecProfile == InitProfile /\ [][NextProfile]_vars

-----------------------------------------------------------------------------
(* The advisory call under its timer: the runs of SpecHist in which the timer of
   evaluateWithAI fires *)

\* const t = setTimeout(() => ctrl.abort(), 15000): while fetch("/api/eval") is
\* pending the timer is armed; when it fires, fetch rejects and the catch block
\* returns.  clearTimeout(t) disarms it as soon as fetch has resolved.
TimerFires(t) ==
  \E ts \in 0..MaxClock : AiFetchFails(t, ts) /\ UNCHANGED << evalVars, serverVars, sideVars >>

\* The timer is the only thing in the code that forces a pending call to end; when
\* the service answers, and when the body of its answer ends, is up to the network.
SpecTimeout == SpecHist /\ \A t \in 1..MaxHistLookups : WF_vars(TimerFires(t))

-----------------------------------------------------------------------------
(* The specification of the scanner of src/App.tsx *)

InitScan ==
  /\ InitClient
  /\ scan = ScanOff
  /\ chain = ChainIdle /\ cam = CamOff
  /\ storedProfile = profile /\ tagProfile = DefaultTagProfile
  /\ NoRequest
  /\ evalP = EmptyProduct /\ evalProf = Null /\ evalOut = Null

besideScan == << evalVars, serverVars, chain, cam, storedProfile, tagProfile >>

\* The lookups the accepted payloads start stay pending: what a lookup does next is
\* the subject of Spec.
NextScan ==
  \/ ScanToggle /\ UNCHANGED besideScan
  \/ \E i \in 1..MaxProbes, cams \in CameraLists, back \in 0..2 :
        ProbeResolves(i, cams, back) /\ UNCHANGED besideScan
  \/ \E i \in 1..MaxProbes : ProbeFails(i) /\ UNCHANGED besideScan
  \/ DecoderStarts /\ UNCHANGED besideScan
  \/ DecoderFails /\ UNCHANGED besideScan
  \/ \E result \in { Null } \cup { Some(code) : code \in Codes }, frame \in { "live", "late" } :
        onDecode(result, frame) /\ UNCHANGED besideScan
  \/ switchCamera /\ UNCHANGED besideScan

SpecScan == InitScan /\ [][NextScan]_vars

-----------------------------------------------------------------------------
(* The specification of the camera of src/src/App.tsx *)

InitCam ==
  /\ cam = CamOff
  /\ InitClient
  /\ chain = ChainIdle /\ scan = ScanOff
  /\ storedProfile = profile /\ tagProfile = DefaultTagProfile
  /\ NoRequest
  /\ evalP = EmptyProduct /\ evalProf = Null /\ evalOut = Null

besideCam == << evalVars, clientVars, serverVars, chain, scan, storedProfile, tagProfile >>

NextCam ==
  \/ CamToggle /\ UNCHANGED besideCam
  \/ Unmount /\ UNCHANGED besideCam
  \/ \E i \in 1..MaxStarts : GumResolves(i) /\ UNCHANGED besideCam
  \/ \E i \in 1..MaxStarts : GumRejects(i) /\ UNCHANGED besideCam
  \/ \E i \in 1..MaxStarts, played \in BOOLEAN : PlaySettles(i, played) /\ UNCHANGED besideCam
  \/ \E i \in 1..MaxStarts, started \in BOOLEAN : DecodeSettles(i, started) /\ UNCHANGED besideCam

SpecCam == InitCam /\ [][NextCam]_vars

-----------------------------------------------------------------------------
(* Properties of evaluateForProfile, checked under SpecEval *)

\* The call has returned
Evaluated == evalOut # Null

\* The active categories of the call, as a set
ActiveKeys == { activeOf(evalProf)[i] : i \in 1..Len(activeOf(evalProf)) }

\* s contains t, whatever the letter case of either
ContainsAnyCase(s, t) == includes(toLowerCase(s), toLowerCase(t))

\* An active category hard-matches: by an ingredient keyword or by an allergen tag
HardMatch == \E key \in ActiveKeys : hitTag(evalP, key) \/ hitTxt(evalP, key)

\* An active category has a trace match
TraceMatch == \E key \in ActiveKeys : traceHit(evalP, key)

\* The label claims (labels, traces and traces_tags joined and lower-cased) hold a
\* gluten-free wording: gluten-free, gluten free, glutenfree, bez lepku, bezlepkov...
DeclaresGlutenFree ==
  LET joined == toLowerCase(evalP.labels \o <<" ">> \o evalP.traces \o <<" ">>
                            \o join(evalP.traces_tags, <<" ">>))
  IN  \E w \in { <<"g","l","u","t","e","n","-","f","r","e","e">>,
                 <<"g","l","u","t","e","n"," ","f","r","e","e">>,
                 <<"g","l","u","t","e","n","f","r","e","e">>,
                 <<"b","e","z"," ","l","e","p","k","u">>,
                 <<"b","e","z","l","e","p","k","o","v">> } : includes(joined, w)

\* C1: if the ingredient text contains, in any letter case, a keyword of an active
\* category (any term of the table, the sulphites terms E220 ... E228 included), the
\* status returned is avoid.
C1_KeywordGivesAvoid ==
  Evaluated =>
    \A key \in ActiveKeys : \A t \in TermsOf(key) :
      ContainsAnyCase(textRaw(evalP), t) => evalOut[1].status = "avoid"

\* C2: avoid is absorbing: if an active category hard-matches, the status returned
\* is avoid, whatever labels, traces and traces_tags hold.
C2_AvoidAbsorbing == (Evaluated /\ HardMatch) => evalOut[1].status = "avoid"

\* C2 witness: a hard match on a product that declares itself gluten-free, for a
\* profile with gluten active, evaluated to avoid
C2_Witness ==
  /\ Evaluated /\ HardMatch /\ DeclaresGlutenFree /\ "gluten" \in ActiveKeys
  /\ evalOut[1].status = "avoid"

\* C3 as stated: gluten active, no hard match and a gluten-free wording in the label
\* claims give safe, wherever the wording sits
C3_GlutenFreeGivesSafe ==
  (Evaluated /\ "gluten" \in ActiveKeys /\ ~HardMatch /\ DeclaresGlutenFree)
    => evalOut[1].status = "safe"

\* C3 amended: gluten active, no hard match, a gluten-free wording in the label
\* claims and no trace match of an active category give safe
C3_GlutenFreeNoTraceGivesSafe ==
  (Evaluated /\ "gluten" \in ActiveKeys /\ ~HardMatch /\ DeclaresGlutenFree /\ ~TraceMatch)
    => evalOut[1].status = "safe"

\* C3 witness: the wording sits in the traces field (not in labels), and the status
\* is safe
C3_Witness ==
  /\ Evaluated /\ "gluten" \in ActiveKeys /\ ~HardMatch /\ DeclaresGlutenFree /\ ~TraceMatch
  /\ evalP.labels = <<>> /\ evalP.traces # <<>>
  /\ evalOut[1].status = "safe"

\* The traces field as written: traces, or traces_tags when traces is empty
TracesField == OrElse(evalP.traces, join(evalP.traces_tags, <<",", " ">>))

\* C4: a keyword of an active category in the traces field, in any letter case, never yields avoid by
\* itself: without a hard match the status is maybe (safe is turned into maybe,
\* maybe stays), and the notes hold the trace note of the category.
C4_TraceOnly ==
  Evaluated =>
    \A key \in ActiveKeys : \A t \in TermsOf(key) :
      ContainsAnyCase(TracesField, t) =>
        /\ noteTraces(key) \in { evalOut[1].notes[i] : i \in 1..Len(evalOut[1].notes) }
        /\ evalOut[1].status # "safe"
        /\ ~HardMatch => evalOut[1].status = "maybe"

\* C5: no hard match and no declared-safe wording for an active category give
\* maybe, with the note to check the label.
C5_DefaultMaybe ==
  (Evaluated /\ ~HardMatch /\ ~("gluten" \in ActiveKeys /\ DeclaresGlutenFree))
    => /\ evalOut[1].status = "maybe"
       /\ noteCheckLabel \in { evalOut[1].notes[i] : i \in 1..Len(evalOut[1].notes) }

\* C5 witness: the product with every field empty, evaluated to maybe
C5_Witness == Evaluated /\ evalP = EmptyProduct /\ evalOut[1].status = "maybe"

\* C6: a null profile or an empty intolerances list is evaluated as the profile
\* [gluten, milk_protein]; the active set is never empty.
C6_DefaultCategories ==
  (Evaluated /\ (evalProf = Null \/ evalProf[1].intolerances = <<>>))
    => /\ evalOut[1] = evaluateForProfile(evalP, Some(Profile("", << "gluten", "milk_protein" >>)))
       /\ ActiveKeys = { "gluten", "milk_protein" }

\* C6 witness: an empty intolerances list, and the milk protein category matched
C6_Witness ==
  /\ Evaluated /\ evalProf # Null /\ evalProf[1].intolerances = <<>>
  /\ evalOut[1].notes = << noteContains("milk_protein") >>

\* C7: an allergen tag that contains, in any letter case and anywhere, the key or
\* the Slovak or Czech label of an active category gives avoid.
C7_TagGivesAvoid ==
  Evaluated =>
    \A key \in ActiveKeys : \A i \in 1..Len(evalP.allergens_tags) :
      (\E n \in { keyText[key], INTOLERANCES[key].sk, INTOLERANCES[key].cs } :
          ContainsAnyCase(evalP.allergens_tags[i], n))
        => evalOut[1].status = "avoid"

\* C8: safe is returned only with gluten active, a gluten-free wording in the label
\* claims, no hard match and no trace match.
C8_SafeOnlyIf ==
  (Evaluated /\ evalOut[1].status = "safe")
    => "gluten" \in ActiveKeys /\ DeclaresGlutenFree /\ ~HardMatch /\ ~TraceMatch

\* C8 witness: a call that returned safe
C8_Witness == Evaluated /\ evalOut[1].status = "safe"

-----------------------------------------------------------------------------
(* Properties of the client's lookup, checked under Spec *)

\* The lookups, as fetchProduct calls in progress or returned
Lookups == DOMAIN lookups

\* What the advisory call of lookup t returns in the step that ends it: the catch
\* branch when fetch is still pending, the reading of the reply otherwise
AdvisoryResult(t) ==
  IF lookups[t].pc = "ai" THEN evaluateWithAICatch ELSE evaluateWithAI(lookups[t].res[1])

AdvisoryNotes(t) == IF AdvisoryResult(t).notes = Null THEN <<>> ELSE AdvisoryResult(t).notes[1]

\* Lookup t takes the step in which its advisory call returns
AdvisoryReturns(t) == lookups[t].pc \in { "ai", "aibody" } /\ lookups'[t].pc = "done"

\* The local verdict is maybe, or all four ingredient texts of the product are empty
MaybeOrNoText(base, p) ==
  \/ base.status = "maybe"
  \/ /\ p.ingredients_text = <<>> /\ p.ingredients_text_sk = <<>>
     /\ p.ingredients_text_cs = <<>> /\ p.ingredients_text_en = <<>>

\* C9: for a product that was found, the advisory endpoint is called exactly when
\* the local verdict is maybe or all ingredient texts are empty; and when it was
\* called, the notes displayed once it returned are the local notes followed by the
\* advisory notes.
C9_AdvisoryNotesAppended ==
  [][ \A t \in Lookups :
        /\ (lookups[t].pc = "off" /\ lookups'[t].pc = "ai")
             => MaybeOrNoText(lookups'[t].base[1], lookups'[t].p[1])
        /\ (lookups[t].pc = "off" /\ lookups'[t].pc = "done")
             => ~MaybeOrNoText(evaluateForProfile(product'[1], lookups[t].prof), product'[1])
        /\ AdvisoryReturns(t) => notes' = lookups[t].base[1].notes \o AdvisoryNotes(t) ]_vars

-----------------------------------------------------------------------------
(* Properties of the history, checked under SpecHist and SpecCap *)

\* Lookup t takes the step in which fetchProduct writes the history entry and returns
LookupCompletes(t) == lookups[t].pc \in { "off", "ai", "aibody" } /\ lookups'[t].pc = "done"

\* The local verdict of lookup t, in the step in which it completes
LocalStatus(t) ==
  IF lookups[t].pc = "off"
    THEN localVerdict(product'[1], lookups[t].prof).status
    ELSE lookups[t].base[1].status

\* The verdict lookup t ends with, in the step in which it completes: the advisory
\* status if the advisory call was made and gave one, the local status otherwise
FinalStatus(t) ==
  IF lookups[t].pc # "off" /\ AdvisoryResult(t).status # Null
    THEN AdvisoryResult(t).status[1]
    ELSE LocalStatus(t)

\* The entries of history h whose code is c
EntriesOf(h, c) == SelectSeq(h, LAMBDA x : x.code = c)

\* C11: a completed lookup of a code leaves exactly one entry for the code, at the
\* front of the history, with the time of this lookup and with the verdict this
\* lookup ended with; the entries of the other codes stay as they were.
C11_HistoryIdempotent ==
  [][ \A t \in Lookups :
        LookupCompletes(t) =>
          /\ Len(EntriesOf(history', lookups[t].code)) = 1
          /\ history'[1].code = lookups[t].code
          /\ history'[1].ts = now'
          /\ history'[1].status = FinalStatus(t)
          /\ SelectSeq(history', LAMBDA x : x.code # lookups[t].code)
               = SelectSeq(history, LAMBDA x : x.code # lookups[t].code) ]_vars

\* C12: the history holds no two entries with the same code, and its entries are
\* in non-increasing order of their timestamps.
C12_HistoryDistinctSorted ==
  /\ \A i, j \in 1..Len(history) : history[i].code = history[j].code => i = j
  /\ \A i \in 1..(Len(history) - 1) : history[i].ts >= history[i + 1].ts

\* C12 witness: two entries of different times, the later lookup first
C12_Witness == Len(history) = 2 /\ history[1].ts > history[2].ts

\* C13: neither the history in memory nor the stored history has more entries
\* than the cap.
C13_HistoryBounded == Len(history) <= HistoryCap /\ Len(storedHistory) <= HistoryCap

\* C14: the entry a lookup writes carries the verdict the lookup ends with: the
\* advisory status if the advisory call gave one, the local status otherwise.
C14_EntryRecordsVerdict ==
  [][ \A t \in Lookups :
        LookupCompletes(t) => history'[1].status = FinalStatus(t) ]_vars

\* The statuses a verdict may show
DisplayedStatuses == { Null } \cup { Some(s) : s \in EvalStatus }

\* C10: the displayed status is always unset or one of safe, avoid, maybe; when an
\* advisory call returns, its status replaces the displayed one if it is one of the
\* three values, and the displayed one is kept otherwise.
C10_StatusOneOfThree ==
  [][ /\ status' \in DisplayedStatuses
      /\ \A t \in Lookups :
           AdvisoryReturns(t) =>
             status' = IF AdvisoryResult(t).status \in DisplayedStatuses \ { Null }
                         THEN AdvisoryResult(t).status ELSE status ]_vars

-----------------------------------------------------------------------------
(* The /api/eval handlers *)

\* The handler has run
Handled == ran # Null

\* The handler has run and sent exactly one response, with the HTTP status c
SentOne(c) == Handled /\ Len(ran[1].responses) = 1 /\ ran[1].responses[1].code = c

\* The handler has run and sent exactly one response: 200 with ok true, the status
\* maybe and a note list that begins with one of the given notes
SentMaybe(texts) ==
  /\ SentOne(200)
  /\ ran[1].responses[1].body # Null
  /\ ran[1].responses[1].body[1].ok
  /\ ran[1].responses[1].body[1].status = Some("maybe")
  /\ ran[1].responses[1].body[1].notes # Null
  /\ Len(ran[1].responses[1].body[1].notes[1]) > 0
  /\ ran[1].responses[1].body[1].notes[1][1][1] \in texts

\* The ALLOW_ORIGINS of the deployed file
AllowList ==
  IF deployed = "src/eval.ts"
    THEN { ALLOW_ORIGINS[i] : i \in 1..Len(ALLOW_ORIGINS) }
    ELSE { apiALLOW_ORIGINS[i] : i \in 1..Len(apiALLOW_ORIGINS) }

\* The handler has called the service and the service has answered
ServiceAnswered == Handled /\ ran[1].fetched /\ osEnv.upstream.fetch = "resolves"

\* C15: every POST request gets exactly one response, which is 200 with ok true and
\* a status among safe, avoid and maybe, and no exception leaves the handler.
C15_PostAlwaysOk ==
  (Handled /\ req.method = "POST") =>
    /\ ~ran[1].escaped
    /\ SentOne(200)
    /\ ran[1].responses[1].body # Null
    /\ ran[1].responses[1].body[1].ok
    /\ ran[1].responses[1].body[1].status # Null
    /\ ran[1].responses[1].body[1].status[1] \in EvalStatus

\* C16: when the service answers with a non-success HTTP status, the handler sends
\* 200 with the status maybe and a note list that begins with a diagnostic, whatever
\* the body of the answer holds.
C16_ServiceFailureGivesMaybe ==
  (ServiceAnswered /\ ~osEnv.upstream.ok) =>
    SentMaybe({ "AI poziadavka zlyhala.", "AI poziadavka zlyhala (HTTP)." })

\* C16 witness: the service answers 500 with a body that reads as a verdict of avoid
C16_Witness ==
  /\ ServiceAnswered
  /\ ~osEnv.upstream.ok
  /\ osEnv.upstream.body = UpBody("content", << JsonObject(Some("avoid"), Some(<< ModelNote >>)) >>)
  /\ SentMaybe({ "AI poziadavka zlyhala.", "AI poziadavka zlyhala (HTTP)." })

\* C17: a POST request received while OPENAI_API_KEY is unset makes no request to
\* the service and gets 200 with the status maybe and the note that the AI is not
\* configured.
C17_NoKeyGivesMaybe ==
  (Handled /\ req.method = "POST" /\ ~osEnv.key) =>
    /\ ~ran[1].fetched
    /\ SentMaybe({ "AI kluc nie je nastaveny na serveri.", "Chyba OPENAI_API_KEY na Verceli." })

\* C18: a request that is neither POST nor OPTIONS gets 405, an OPTIONS request gets
\* a success response without a body; in both cases the body is not read, the
\* credential is not read and the service is not called.
C18_MethodGate ==
  (Handled /\ req.method # "POST") =>
    /\ IF req.method = "OPTIONS"
         THEN /\ Len(ran[1].responses) = 1
              /\ ran[1].responses[1].code \in 200..299
              /\ ran[1].responses[1].body = Null
         ELSE SentOne(405)
    /\ ~ran[1].bodyRead
    /\ ~ran[1].keyRead
    /\ ~ran[1].fetched
    /\ ~ran[1].escaped

\* C18 witness: a GET request with a body that has a code, the credential set, is
\* answered with 405
C18_Witness ==
  /\ SentOne(405)
  /\ req.method = "GET"
  /\ req.body.code # Null
  /\ osEnv.key

\* C19: the Access-Control-Allow-Origin value is always an origin of ALLOW_ORIGINS,
\* and a request from an origin that is not in ALLOW_ORIGINS gets neither its own
\* origin nor the wildcard.
C19_CorsAllowList ==
  Handled =>
    /\ ran[1].acao \in AllowList
    /\ (req.origin # Null /\ req.origin[1] \notin AllowList) =>
         (ran[1].acao # req.origin[1] /\ ran[1].acao # Wildcard)

\* The block of the reply text the status is to be taken from: the text itself if it
\* is valid JSON, else the one JSON object embedded in it; Null if there is none
StatusBlock(content) ==
  LET objects == { i \in 1..Len(content) : content[i].kind = "object" }
  IN  IF JSONparse(content) # Null THEN JSONparse(content)
      ELSE IF Cardinality(objects) = 1 THEN Some(content[CHOOSE i \in objects : TRUE])
      ELSE Null

\* The service has answered 200 with a completion that has a message content
RepliedWith(content) ==
  /\ ServiceAnswered
  /\ osEnv.upstream.ok
  /\ osEnv.upstream.body = UpBody("content", content)

\* C20: if the reply text is valid JSON or embeds one JSON object, and the status of
\* that block is safe, avoid or maybe, it is the status of the response; if the
\* status is missing or invalid, or the text holds no JSON, the status of the
\* response is maybe and its note list is not empty.
C20_ReplyParsing ==
  \A content \in Contents :
    RepliedWith(content) =>
      LET block == StatusBlock(content)
          body == ran[1].responses[1].body[1]
      IN  IF block # Null /\ block[1].status # Null /\ block[1].status[1] \in EvalStatus
            THEN body.status = block[1].status
          ELSE IF block # Null \/ \A i \in 1..Len(content) : content[i].kind # "object"
            THEN body.status = Some("maybe") /\ body.notes # Null /\ Len(body.notes[1]) > 0
          ELSE TRUE

-----------------------------------------------------------------------------
(* The advisory call and the lookups that overlap *)

\* C21: when /api/eval answers with a status that is not 2xx, the advisory call
\* returns (the lookup goes on through the try block) with the status maybe and a
\* note list that is not empty.
C21_AdvisoryFailureGivesMaybe ==
  [][ \A t \in Lookups :
        (lookups[t].pc = "aibody" /\ ~lookups[t].res[1].resOk /\ lookups'[t].pc # "aibody") =>
          /\ lookups'[t].pc = "done"
          /\ AdvisoryResult(t).status = Some("maybe")
          /\ Len(AdvisoryNotes(t)) > 0 ]_vars

\* Lookup t takes the step in which it ends, through the try block or through catch
LookupEnds(t) ==
  lookups[t].pc \in { "off", "ai", "aibody" } /\ lookups'[t].pc \in { "done", "caught" }

\* C22: no lookup ends with an error message and no verdict: when it ends, a status
\* is displayed or no error is.
C22_LookupEndsWithVerdict ==
  [][ \A t \in Lookups : LookupEnds(t) => ~(status' = Null /\ error' # Null) ]_vars

\* Lookup t is awaiting a reply
InFlight(t) == lookups[t].pc \in { "off", "ai", "aibody" }

\* A lookup of another code was started after lookup t and is awaiting a reply
Superseded(t) ==
  \E u \in Lookups : u > t /\ InFlight(u) /\ lookups[u].code # lookups[t].code

\* C23: a reply to a lookup that is in flight while a later lookup of another code
\* has been started changes neither the product nor the status nor the notes
\* displayed.
C23_StaleReplyIgnored ==
  [][ \A t \in Lookups :
        (InFlight(t) /\ Superseded(t) /\ lookups'[t] # lookups[t]) =>
          (product' = product /\ status' = status /\ notes' = notes) ]_vars

\* C30: a lookup whose local verdict is avoid ends with avoid, displayed and stored
\* in the history, whatever the advisory call returned.
C30_AvoidNeverWeakened ==
  [][ \A t \in Lookups :
        (LookupCompletes(t) /\ LocalStatus(t) = "avoid") =>
          (FinalStatus(t) = "avoid" /\ history'[1].status = "avoid") ]_vars

\* The profiles that hold the categories of prof in another order
Reordered(prof) ==
  IF prof = Null THEN { Null }
  ELSE { Some(Profile(prof[1].name, s)) :
           s \in { s \in DistinctSeqs({ prof[1].intolerances[i] : i \in 1..Len(prof[1].intolerances) },
                                      Len(prof[1].intolerances)) :
                     Len(s) = Len(prof[1].intolerances) } }

\* C29: a profile that holds the same categories in another order gets the same
\* status and the same sequence of notes for the product.
C29_NoteOrderStable ==
  Evaluated => \A prof2 \in Reordered(evalProf) : evaluateForProfile(evalP, prof2) = evalOut[1]

-----------------------------------------------------------------------------
(* fetchOFFChain *)

\* The endpoints, in the order sk, cz, world, whose answer is a successful response
\* with a body of status 1 and a product
Matching(answers) == { i \in 1..3 : answers[i].kind = "match" }

\* C27: the chain returns the product of the first endpoint, in the order sk, cz,
\* world, that answers with a match, having queried the endpoints up to that one and
\* no endpoint after it; it throws only if none of the three matches, after it has
\* queried all three.
C27_FirstMatchInOrder ==
  chain.out # Null =>
    IF Matching(chain.answers) = {}
      THEN chain.out[1] = [ queried |-> 3, found |-> Null ]
      ELSE LET first == CHOOSE i \in Matching(chain.answers) :
                          \A j \in Matching(chain.answers) : i <= j
           IN  chain.out[1] = [ queried |-> first, found |-> chain.answers[first].product ]

\* C27 witness: sk gives a response that is not ok, cz a body with status 0, world a
\* match, which is returned after three queries
C27_Witness ==
  /\ chain.out # Null
  /\ chain.answers[1].kind = "notok"
  /\ chain.answers[2].kind = "status0"
  /\ chain.answers[3].kind = "match"
  /\ chain.out[1] = [ queried |-> 3, found |-> chain.answers[3].product ]

-----------------------------------------------------------------------------
(* The profile *)

\* A list of categories of the enumeration S with no category twice
ValidList(list, S) == Range(list) \subseteq S /\ Cardinality(Range(list)) = Len(list)

\* The list has key after the toggle exactly if it did not have it before, and the
\* other categories are the same
Toggled(before, after, key) ==
  /\ (key \in Range(after)) <=> (key \notin Range(before))
  /\ Range(after) \ { key } = Range(before) \ { key }

ListOf(prev) == IF prev = Null THEN <<>> ELSE prev[1].intolerances

\* C26: the intolerances of the profile (the displayed and the saved one of
\* src/App.tsx, the one of src/src/App.tsx) are categories of the fixed enumeration,
\* none twice; from such a profile a toggle of a category gives such a profile, with
\* the category added if it was absent and removed if it was present, and
\* complete-profile and use-defaults give such a profile too.
C26_IntolerancesValid ==
  /\ ValidList(ListOf(profile), Keys)
  /\ ValidList(ListOf(storedProfile), Keys)
  /\ ValidList(tagProfile.intolerances, Range(ALL_TAGS))
  /\ \A nameDraft \in Drafts :
       /\ \A prev \in { profile, storedProfile }, key \in Keys :
            LET next == toggleIntol(prev, key, nameDraft)
            IN  /\ ValidList(next.intolerances, Keys)
                /\ Toggled(ListOf(prev), next.intolerances, key)
       /\ ValidList(completeProfile(profile, nameDraft).intolerances, Keys)
       /\ ValidList(useDefaults(nameDraft).intolerances, Keys)
  /\ \A tag \in Range(ALL_TAGS) :
       LET next == toggleTag(tagProfile, tag)
       IN  /\ ValidList(next.intolerances, Range(ALL_TAGS))
           /\ Toggled(tagProfile.intolerances, next.intolerances, tag)

\* C26 witness: in src/App.tsx a toggle has made and saved the profile of the name
\* typed, with the one category toggled; in src/src/App.tsx toggles have removed the
\* default tag and added two others
C26_Witness ==
  /\ profile # Null
  /\ profile[1].name = "Eva"
  /\ profile[1].intolerances = << "nuts" >>
  /\ storedProfile = profile
  /\ tagProfile.intolerances = << "so'ja", "mlieko" >>

-----------------------------------------------------------------------------
(* The timeout of the advisory call *)

\* The lookup is inside evaluateWithAI: fetch("/api/eval") is pending, or the body
\* of its response is being read
InAdvisoryCall(t) == lookups[t].pc \in { "ai", "aibody" }

\* C28: every lookup that started an advisory call eventually has the call's result
\* and leaves the loading state, also if /api/eval never responds or never finishes
\* the body of its response.
C28_AdvisoryCallBounded ==
  \A t \in 1..MaxHistLookups :
    InAdvisoryCall(t) ~> (lookups[t].pc \in { "done", "caught" })

-----------------------------------------------------------------------------
(* The scanner *)

-----------------------------------------------------------------------------
(* The camera *)

\* No call of startCamera is awaiting getUserMedia, play or decodeFromVideoDevice
StartsFinished == \A i \in 1..MaxStarts : cam.starts[i] \in { "none", "done", "failed" }

\* C25: once the camera switch is off or App is unmounted, and every call of
\* startCamera has finished, no stream is open and no decode loop runs.
C25_CameraReleased ==
  ((~cam.on \/ ~cam.mounted) /\ StartsFinished) => (cam.open = {} /\ cam.loops = {})

====
